---- MODULE Spec2Model ----
(***************************************************************************)
(* Cost aggregation core of ai-cost-checker: the two provider adapters     *)
(* (OpenAIService, AnthropicService, proxy variants) and the aggregator    *)
(* CostTrackerService with its availability gate.                          *)
(*                                                                         *)
(* Numbers: a JavaScript number x is represented by the integer 100 * x    *)
(* (hundredths of a dollar), so 4.25 is 425 and 10 is 1000.                *)
(* Dates: an ISO calendar day "YYYY-MM-DD" is represented by its day       *)
(* number; localeCompare on such strings is the order of the day numbers.  *)
(***************************************************************************)
EXTENDS Integers, Sequences, FiniteSets, TLC

(* ------------------------------ bounds -------------------------------- *)

\* init may be called at most MaxInits times in a behaviour
MaxInits == 2
\* the largest lookback getMonthlyData is called with
MaxMonths == 2
\* the largest number of daily buckets in one provider response
MaxBuckets == 2
\* the longest lookback asked of getMonthlyData as a whole
MaxLookback == 13
\* the longest usage report given to getModelBreakdown
MaxEntries == 3

(* ------------------------- program constants -------------------------- *)

SecondsPerDay == 86400
MonthsPerYear == 12
TokensPerUnit == 1000000
\* "result.amount.value / 100" of the direct-key OpenAIService
CentsPerDollar == 100
\* 3.00 and 15.00 dollars per 1M tokens, in hundredths
COST_PER_1M_INPUT_TOKENS == 300
COST_PER_1M_OUTPUT_TOKENS == 1500
\* "limit=180" in the URL the proxy requests from OpenAI
PageLimit == 180

(* ----------------------------- input sets ----------------------------- *)

Providers == {"openai", "anthropic"}

\* token counts of a usage entry
TokenCounts == {500000, 1000000}

\* Date.getMonth() of "now": January, so that a lookback crosses the year's end
\* (..., Nov, Dec, Jan)
NowMonths == {0}

SeqsUpTo(S, n) == UNION {[1..k -> S] : k \in 0..n}

(* A response body.  hasData = FALSE is a body without a data array; a     *)
(* bucket with hasResults = FALSE is a bucket without a results array.     *)
Body(buckets) == [hasData |-> TRUE, data |-> buckets]
NoDataBody == [hasData |-> FALSE, data |-> <<>>]

\* an upstream outcome: ok = FALSE is a network error or a non-2xx response
Failure == [ok |-> FALSE, body |-> NoDataBody]
Success(body) == [ok |-> TRUE, body |-> body]

OpenAIBucket(t, rs) == [start_time |-> t, hasResults |-> TRUE, results |-> rs]
AnthropicBucket(d, rs) == [starting_at |-> <<d, 0>>, hasResults |-> TRUE, results |-> rs]

\* buckets of an OpenAI response: two on day 1 (midnight, one hour later), one
\* on day 2, and one without a results array
OpenAIBuckets ==
  {OpenAIBucket(SecondsPerDay, <<1000>>),
   OpenAIBucket(SecondsPerDay + 3600, <<250, 1000>>),
   OpenAIBucket(2 * SecondsPerDay, <<1000>>),
   [start_time |-> SecondsPerDay, hasResults |-> FALSE, results |-> <<>>]}

\* buckets of an Anthropic response: two on day 1 with different amounts, one on
\* day 2, and one without a results array.  An amount is the string the response
\* carries; "null" is a null amount, which parseFloat turns into that string.
AnthropicBuckets ==
  {AnthropicBucket(1, <<"4.25">>),
   AnthropicBucket(1, <<"abc", "12.50">>),
   AnthropicBucket(2, <<"", "4.25", "null">>),
   [starting_at |-> <<1, 0>>, hasResults |-> FALSE, results |-> <<>>]}

\* outcomes of one request for a range of days
OpenAIDailyOutcomes ==
  {Failure, Success(NoDataBody)}
    \cup {Success(Body(bs)) : bs \in SeqsUpTo(OpenAIBuckets, MaxBuckets)}

AnthropicDailyOutcomes ==
  {Failure, Success(NoDataBody)}
    \cup {Success(Body(bs)) : bs \in SeqsUpTo(AnthropicBuckets, MaxBuckets)}

\* outcomes of one request for one month (the day of a bucket plays no role)
OpenAIMonthOutcomes ==
  {Failure, Success(NoDataBody), Success(Body(<<>>)),
   Success(Body(<<OpenAIBucket(SecondsPerDay, <<250, 1000>>)>>)),
   Success(Body(<<OpenAIBucket(SecondsPerDay, <<1000>>),
                  [start_time |-> SecondsPerDay, hasResults |-> FALSE, results |-> <<>>]>>))}

AnthropicMonthOutcomes ==
  {Failure, Success(NoDataBody), Success(Body(<<>>)),
   Success(Body(<<AnthropicBucket(1, <<"abc", "4.25", "0">>)>>)),
   Success(Body(<<AnthropicBucket(1, <<"4.25">>),
                  [starting_at |-> <<1, 0>>, hasResults |-> FALSE, results |-> <<>>]>>))}

(* Responses to the direct-key OpenAIService, whose amounts are in cents:   *)
(* 500 cents is the number 500, represented by 50000.  Only whole cents    *)
(* occur, so the division by 100 is exact in this representation.          *)
DirectOpenAIBuckets ==
  {OpenAIBucket(SecondsPerDay, <<50000>>),
   OpenAIBucket(SecondsPerDay + 3600, <<25000, 50000>>),
   OpenAIBucket(2 * SecondsPerDay, <<50000>>),
   [start_time |-> SecondsPerDay, hasResults |-> FALSE, results |-> <<>>]}

DirectDailyOutcomes ==
  {Failure, Success(NoDataBody)}
    \cup {Success(Body(bs)) : bs \in SeqsUpTo(DirectOpenAIBuckets, MaxBuckets)}

DirectMonthOutcomes ==
  {Failure, Success(NoDataBody), Success(Body(<<>>)),
   Success(Body(<<OpenAIBucket(SecondsPerDay, <<50000>>)>>)),
   Success(Body(<<OpenAIBucket(SecondsPerDay, <<25000, 50000>>),
                  OpenAIBucket(2 * SecondsPerDay, <<50000>>)>>))}

UsageEntries ==
  {[model |-> m, input_tokens |-> i, output_tokens |-> o] :
     m \in {"claude-3.5"}, i \in TokenCounts, o \in {500000}}

UsageOutcomes ==
  {Failure, Success(NoDataBody)}
    \cup {Success(Body(es)) : es \in SeqsUpTo(UsageEntries, 2)}

(* The answers to the monthly requests of an adapter over a long lookback,  *)
(* by months back: one answer for the months of the last year, one for the *)
(* months before.                                                          *)
LookbackPlans(outcomes) ==
  {[i \in 0..(MaxLookback - 1) |-> IF i >= MonthsPerYear THEN old ELSE new] :
     old \in outcomes, new \in outcomes}

\* usage entries of two models, and the answers to the usage request of
\* getModelBreakdown
BreakdownEntries ==
  {[model |-> m, input_tokens |-> i, output_tokens |-> o] :
     m \in {"claude-3.5", "claude-3-opus"}, i \in TokenCounts, o \in TokenCounts}

BreakdownOutcomes ==
  {Failure, Success(NoDataBody)}
    \cup {Success(Body(es)) : es \in SeqsUpTo(BreakdownEntries, MaxEntries)}

(* The API keys in the environment of the proxy process (.env); NoKey is a *)
(* variable that is not set.                                               *)
OpenAIKey == "sk-openai-secret"
AnthropicKey == "sk-ant-secret"
NoKey == ""

Environments == [openai : {NoKey, OpenAIKey}, anthropic : {NoKey, AnthropicKey}]

\* the date ranges getCosts is called with, in seconds
Ranges ==
  {[start_time |-> 0, end_time |-> 30 * SecondsPerDay],
   [start_time |-> SecondsPerDay, end_time |-> 200 * SecondsPerDay]}

\* how many daily buckets OpenAI holds for the range asked
UpstreamDays == {0, 1, PageLimit, PageLimit + 1}

\* the page OpenAI answers a request with: the first "limit" buckets of the
\* range, and has_more when there are others
UpstreamPage(request, days) ==
  [hasData |-> TRUE,
   data |-> [k \in 1..(IF days < request.limit THEN days ELSE request.limit) |->
               OpenAIBucket(request.start_time + (k - 1) * SecondsPerDay, <<100>>)],
   has_more |-> days > request.limit]

\* what OpenAI does with a request of the proxy: a page, an error status with
\* its text, or no answer at all (fetch throws)
UpstreamAnswers ==
  {[kind |-> "page", days |-> d, status |-> 200, text |-> ""] : d \in UpstreamDays}
    \cup {[kind |-> "error", days |-> 0, status |-> 401, text |-> "invalid_api_key"],
          [kind |-> "error", days |-> 0, status |-> 429, text |-> "rate_limit_exceeded"],
          [kind |-> "throw", days |-> 0, status |-> 0, text |-> "fetch failed"]}

(* ------------------- completions of a function call ------------------- *)

\* a call either returns a value or throws
Return(v) == [threw |-> FALSE, val |-> v]
Throw == [threw |-> TRUE, val |-> 0]

(* --------------------------- OpenAIService ---------------------------- *)

\* throws on a failed request, else returns the parsed body
getCosts(resp) == IF resp.ok THEN Return(resp.body) ELSE Throw

RECURSIVE SumValues(_)
SumValues(rs) == IF rs = <<>> THEN 0 ELSE Head(rs) + SumValues(Tail(rs))

\* "for (const bucket of costData.data) for (const result of bucket.results)":
\* iterating a missing array is a TypeError
RECURSIVE OpenAITotal(_)
OpenAITotal(buckets) ==
  IF buckets = <<>> THEN Return(0)
  ELSE IF ~Head(buckets).hasResults THEN Throw
  ELSE LET rest == OpenAITotal(Tail(buckets))
       IN  IF rest.threw THEN Throw
           ELSE Return(SumValues(Head(buckets).results) + rest.val)

calculateTotalCost(costData) ==
  IF ~costData.hasData THEN Throw ELSE OpenAITotal(costData.data)

\* getCurrentMonthCost without its try/catch: a failure of getCosts escapes
OpenAI_getCurrentMonthCost_NoCatch(resp) ==
  LET costData == getCosts(resp)
  IN  IF costData.threw THEN Throw ELSE calculateTotalCost(costData.val)

OpenAI_getCurrentMonthCost(resp) ==
  LET costData == getCosts(resp)
  IN  IF costData.threw THEN Return(0)
      ELSE LET total == calculateTotalCost(costData.val)
           IN  IF total.threw THEN Return(0) ELSE total

\* new Date(start_time * 1000).toISOString().split('T')[0]: the UTC day
DateStr(start_time) == start_time \div SecondsPerDay

\* position of key k in a sequence of keys, 0 when absent
KeyIndex(keys, k) ==
  IF \E i \in DOMAIN keys : keys[i] = k
  THEN CHOOSE i \in DOMAIN keys : keys[i] = k /\ \A j \in 1..(i - 1) : keys[j] # k
  ELSE 0

\* insertion of x into a sequence sorted by date; equal dates keep their order
RECURSIVE InsertByDate(_, _)
InsertByDate(sorted, x) ==
  IF sorted = <<>> THEN <<x>>
  ELSE IF x.date < Head(sorted).date THEN <<x>> \o sorted
  ELSE <<Head(sorted)>> \o InsertByDate(Tail(sorted), x)

\* Array.prototype.sort((a, b) => a.date.localeCompare(b.date)), a stable sort
RECURSIVE SortByDate(_)
SortByDate(xs) ==
  IF xs = <<>> THEN <<>>
  ELSE InsertByDate(SortByDate(SubSeq(xs, 1, Len(xs) - 1)), xs[Len(xs)])

\* the loop of groupCostsByDay over the buckets, dailyMap kept in insertion order
RECURSIVE GroupLoop(_, _)
GroupLoop(buckets, dailyMap) ==
  IF buckets = <<>> THEN Return(dailyMap)
  ELSE LET bucket == Head(buckets)
           dateStr == DateStr(bucket.start_time)
           idx == KeyIndex([i \in DOMAIN dailyMap |-> dailyMap[i].date], dateStr)
       IN  IF ~bucket.hasResults THEN Throw
           ELSE LET bucketCost == SumValues(bucket.results)
                IN  GroupLoop(Tail(buckets),
                      IF idx # 0
                      THEN [dailyMap EXCEPT ![idx].cost = @ + bucketCost]
                      ELSE Append(dailyMap,
                             [date |-> dateStr, cost |-> bucketCost, requests |-> 0]))

groupCostsByDay(costData) ==
  IF ~costData.hasData THEN Throw
  ELSE LET grouped == GroupLoop(costData.data, <<>>)
       IN  IF grouped.threw THEN Throw ELSE Return(SortByDate(grouped.val))

OpenAI_getDailyCosts(resp) ==
  LET costData == getCosts(resp)
  IN  IF costData.threw THEN Return(<<>>)
      ELSE LET days == groupCostsByDay(costData.val)
           IN  IF days.threw THEN Return(<<>>) ELSE days

\* the month taken i months after "now": "now.getMonth() + i"
MonthLabel_Forward(nowMonth, i) == (nowMonth + i) % MonthsPerYear

\* date.toLocaleDateString('en-US', {month: 'short'}) of
\* new Date(now.getFullYear(), now.getMonth() - i, 1): 0 is "Jan", 11 is "Dec"
MonthLabel(nowMonth, i) == (nowMonth - i) % MonthsPerYear

\* the loop body without its try/catch: a failed month aborts getMonthlyCosts
OpenAI_monthEntry_NoCatch(nowMonth, i, resp) ==
  LET costData == getCosts(resp)
      total == IF costData.threw THEN Throw ELSE calculateTotalCost(costData.val)
  IN  IF total.threw THEN Throw
      ELSE Return([month |-> MonthLabel(nowMonth, i), cost |-> total.val])

\* one iteration of the loop of getMonthlyCosts: the entry pushed
OpenAI_monthEntry(nowMonth, i, resp) ==
  LET costData == getCosts(resp)
      total == IF costData.threw THEN Throw ELSE calculateTotalCost(costData.val)
  IN  IF total.threw
      THEN Return([month |-> MonthLabel(nowMonth, i), cost |-> 0])
      ELSE Return([month |-> MonthLabel(nowMonth, i), cost |-> total.val])

(* OpenAIService.getMonthlyCosts(months) as a whole: the entries pushed by  *)
(* the iterations i = months - 1 down to 0, answers[i] being the answer to *)
(* the request of iteration i.                                             *)
OpenAI_getMonthlyCosts(nowMonth, months, answers) ==
  [k \in 1..months |-> OpenAI_monthEntry(nowMonth, months - k, answers[months - k]).val]

(* ------------------ OpenAIService, direct-key variant ------------------ *)

Direct_getCosts(resp) == IF resp.ok THEN Return(resp.body) ELSE Throw

\* "totalCost += result.amount.value / 100"
RECURSIVE Direct_SumValues(_)
Direct_SumValues(rs) ==
  IF rs = <<>> THEN 0
  ELSE (Head(rs) \div CentsPerDollar) + Direct_SumValues(Tail(rs))

RECURSIVE Direct_OpenAITotal(_)
Direct_OpenAITotal(buckets) ==
  IF buckets = <<>> THEN Return(0)
  ELSE IF ~Head(buckets).hasResults THEN Throw
  ELSE LET rest == Direct_OpenAITotal(Tail(buckets))
       IN  IF rest.threw THEN Throw
           ELSE Return(Direct_SumValues(Head(buckets).results) + rest.val)

Direct_calculateTotalCost(costData) ==
  IF ~costData.hasData THEN Throw ELSE Direct_OpenAITotal(costData.data)

Direct_getCurrentMonthCost(resp) ==
  LET costData == Direct_getCosts(resp)
  IN  IF costData.threw THEN Return(0)
      ELSE LET total == Direct_calculateTotalCost(costData.val)
           IN  IF total.threw THEN Return(0) ELSE total

\* the inner loop of groupCostsByDay with "bucketCost += result.amount.value"
RECURSIVE Direct_BucketCost_NotConverted(_)
Direct_BucketCost_NotConverted(rs) ==
  IF rs = <<>> THEN 0 ELSE Head(rs) + Direct_BucketCost_NotConverted(Tail(rs))

\* the inner loop of groupCostsByDay: "bucketCost += result.amount.value / 100"
RECURSIVE Direct_BucketCost(_)
Direct_BucketCost(rs) ==
  IF rs = <<>> THEN 0
  ELSE (Head(rs) \div CentsPerDollar) + Direct_BucketCost(Tail(rs))

RECURSIVE Direct_GroupLoop(_, _)
Direct_GroupLoop(buckets, dailyMap) ==
  IF buckets = <<>> THEN Return(dailyMap)
  ELSE LET bucket == Head(buckets)
           dateStr == DateStr(bucket.start_time)
           idx == KeyIndex([i \in DOMAIN dailyMap |-> dailyMap[i].date], dateStr)
       IN  IF ~bucket.hasResults THEN Throw
           ELSE LET bucketCost == Direct_BucketCost(bucket.results)
                IN  Direct_GroupLoop(Tail(buckets),
                      IF idx # 0
                      THEN [dailyMap EXCEPT ![idx].cost = @ + bucketCost]
                      ELSE Append(dailyMap,
                             [date |-> dateStr, cost |-> bucketCost, requests |-> 0]))

Direct_groupCostsByDay(costData) ==
  IF ~costData.hasData THEN Throw
  ELSE LET grouped == Direct_GroupLoop(costData.data, <<>>)
       IN  IF grouped.threw THEN Throw ELSE Return(SortByDate(grouped.val))

Direct_getDailyCosts(resp) ==
  LET costData == Direct_getCosts(resp)
  IN  IF costData.threw THEN Return(<<>>)
      ELSE LET days == Direct_groupCostsByDay(costData.val)
           IN  IF days.threw THEN Return(<<>>) ELSE days

\* one iteration of the loop of getMonthlyCosts: the entry pushed
Direct_monthEntry(nowMonth, i, resp) ==
  LET costData == Direct_getCosts(resp)
      total == IF costData.threw THEN Throw
               ELSE Direct_calculateTotalCost(costData.val)
  IN  IF total.threw
      THEN Return([month |-> MonthLabel(nowMonth, i), cost |-> 0])
      ELSE Return([month |-> MonthLabel(nowMonth, i), cost |-> total.val])

(* -------------------------- AnthropicService -------------------------- *)

getCostReport(resp) == IF resp.ok THEN Return(resp.body) ELSE Throw

getUsageReport(resp) == IF resp.ok THEN Return(resp.body) ELSE Throw

\* parseFloat of an amount: a number, or NaN
NaN == [nan |-> TRUE, num |-> 0]
parseFloat(s) ==
  CASE s = "4.25"  -> [nan |-> FALSE, num |-> 425]
    [] s = "12.50" -> [nan |-> FALSE, num |-> 1250]
    [] s = "0"     -> [nan |-> FALSE, num |-> 0]
    [] OTHER       -> NaN

\* "x || 0": NaN and 0 are falsy
OrZero(x) == IF x.nan \/ x.num = 0 THEN 0 ELSE x.num

\* bucket.results.reduce((sum, result) => sum + (parseFloat(result.amount) || 0), 0)
\* the sum as "parseFloat(sum + amount) || 0" would leave it: an amount that does
\* not parse zeroes what was summed before it
RECURSIVE SumAmounts_NaNZeroesSum(_)
SumAmounts_NaNZeroesSum(rs) ==
  IF rs = <<>> THEN 0
  ELSE IF \E k \in DOMAIN rs : parseFloat(rs[k]).nan THEN 0
  ELSE OrZero(parseFloat(Head(rs))) + SumAmounts_NaNZeroesSum(Tail(rs))

RECURSIVE SumAmounts(_)
SumAmounts(rs) ==
  IF rs = <<>> THEN 0 ELSE OrZero(parseFloat(Head(rs))) + SumAmounts(Tail(rs))

\* reduce is called on bucket.results: a TypeError when the array is missing
BucketTotal(bucket) ==
  IF bucket.hasResults THEN Return(SumAmounts(bucket.results)) ELSE Throw

\* costData.data.reduce((sum, bucket) => sum + bucketTotal, 0)
RECURSIVE AnthropicTotal(_)
AnthropicTotal(buckets) ==
  IF buckets = <<>> THEN Return(0)
  ELSE LET first == BucketTotal(Head(buckets))
           rest == AnthropicTotal(Tail(buckets))
       IN  IF first.threw \/ rest.threw THEN Throw
           ELSE Return(first.val + rest.val)

(* The try block of getCurrentMonthCost: a returned value is the result of *)
(* the call, a throw is caught and leads to calculateCostFromUsage.        *)
Anthropic_costReportPath(resp) ==
  LET costData == getCostReport(resp)
  IN  IF costData.threw THEN Throw
      ELSE IF ~costData.val.hasData THEN Return(0)
      ELSE AnthropicTotal(costData.val.data)

\* the loop with the two prices exchanged
RECURSIVE UsageCost_PricesSwapped(_)
UsageCost_PricesSwapped(entries) ==
  IF entries = <<>> THEN 0
  ELSE LET entry == Head(entries)
           inputCost == (entry.input_tokens * COST_PER_1M_OUTPUT_TOKENS) \div TokensPerUnit
           outputCost == (entry.output_tokens * COST_PER_1M_INPUT_TOKENS) \div TokensPerUnit
       IN  inputCost + outputCost + UsageCost_PricesSwapped(Tail(entries))

RECURSIVE UsageCost(_)
UsageCost(entries) ==
  IF entries = <<>> THEN 0
  ELSE LET entry == Head(entries)
           inputCost == (entry.input_tokens * COST_PER_1M_INPUT_TOKENS) \div TokensPerUnit
           outputCost == (entry.output_tokens * COST_PER_1M_OUTPUT_TOKENS) \div TokensPerUnit
       IN  inputCost + outputCost + UsageCost(Tail(entries))

calculateCostFromUsage(resp) ==
  LET usage == getUsageReport(resp)
  IN  IF usage.threw THEN Return(0)
      ELSE IF ~usage.val.hasData THEN Return(0)
      ELSE Return(UsageCost(usage.val.data))

\* the loop of getModelBreakdown over usage.data: modelMap, a Map in insertion
\* order, with the entry's tokens put in place of the tokens of its model
RECURSIVE ModelMapLoop_LastWins(_, _)
ModelMapLoop_LastWins(entries, modelMap) ==
  IF entries = <<>> THEN modelMap
  ELSE LET entry == Head(entries)
           idx == KeyIndex([k \in DOMAIN modelMap |-> modelMap[k].model], entry.model)
           fresh == [model |-> entry.model, inputTokens |-> entry.input_tokens,
                     outputTokens |-> entry.output_tokens]
       IN  ModelMapLoop_LastWins(Tail(entries),
                                 IF idx # 0 THEN [modelMap EXCEPT ![idx] = fresh]
                                 ELSE Append(modelMap, fresh))

\* the loop of getModelBreakdown over usage.data: modelMap, a Map in insertion order
RECURSIVE ModelMapLoop(_, _)
ModelMapLoop(entries, modelMap) ==
  IF entries = <<>> THEN modelMap
  ELSE LET entry == Head(entries)
           idx == KeyIndex([k \in DOMAIN modelMap |-> modelMap[k].model], entry.model)
       IN  ModelMapLoop(Tail(entries),
             IF idx # 0
             THEN [modelMap EXCEPT ![idx].inputTokens = @ + entry.input_tokens,
                                   ![idx].outputTokens = @ + entry.output_tokens]
             ELSE Append(modelMap,
                         [model |-> entry.model, inputTokens |-> entry.input_tokens,
                          outputTokens |-> entry.output_tokens]))

\* "(tokens / 1_000_000) * price": the division is made first, here on the
\* whole millions and on the remainder so that no product leaves 32 bits
PerMillion(tokens, price) ==
  (tokens \div TokensPerUnit) * price + ((tokens % TokensPerUnit) * price) \div TokensPerUnit

\* "(inputTokens / 1_000_000) * 3.00 + (outputTokens / 1_000_000) * 15.00": the
\* literals of the return statement, the values of the two price constants
EstimatedCost(data) ==
  PerMillion(data.inputTokens, COST_PER_1M_INPUT_TOKENS)
    + PerMillion(data.outputTokens, COST_PER_1M_OUTPUT_TOKENS)

(* getModelBreakdown: a throw of getUsageReport, or of the loop over a     *)
(* missing usage.data, is caught and [] returned.                          *)
Anthropic_getModelBreakdown(resp) ==
  LET usage == getUsageReport(resp)
  IN  IF usage.threw THEN <<>>
      ELSE IF ~usage.val.hasData THEN <<>>
      ELSE LET modelMap == ModelMapLoop(usage.val.data, <<>>)
           IN  [k \in DOMAIN modelMap |->
                  [model |-> modelMap[k].model,
                   inputTokens |-> modelMap[k].inputTokens,
                   outputTokens |-> modelMap[k].outputTokens,
                   estimatedCost |-> EstimatedCost(modelMap[k])]]

\* costData.data.map(bucket => ({date, cost})): starting_at.split('T')[0]
RECURSIVE MapBuckets(_)
MapBuckets(buckets) ==
  IF buckets = <<>> THEN Return(<<>>)
  ELSE LET bucket == Head(buckets)
           totalCost == BucketTotal(bucket)
           rest == MapBuckets(Tail(buckets))
       IN  IF totalCost.threw \/ rest.threw THEN Throw
           ELSE Return(<<[date |-> bucket.starting_at[1], cost |-> totalCost.val]>>
                         \o rest.val)

Anthropic_getDailyCosts(resp) ==
  LET costData == getCostReport(resp)
  IN  IF costData.threw THEN Return(<<>>)
      ELSE IF ~costData.val.hasData THEN Return(<<>>)
      ELSE LET days == MapBuckets(costData.val.data)
           IN  IF days.threw THEN Return(<<>>) ELSE days

\* whether an iteration of getMonthlyCosts leaves through "continue"
Anthropic_monthContinues(resp) == resp.ok /\ ~resp.body.hasData

\* one iteration of the loop of getMonthlyCosts: the entry pushed
Anthropic_monthEntry(nowMonth, i, resp) ==
  LET costData == getCostReport(resp)
      totalCost == IF costData.threw THEN Throw
                   ELSE IF ~costData.val.hasData THEN Return(0)
                   ELSE AnthropicTotal(costData.val.data)
  IN  IF totalCost.threw
      THEN Return([month |-> MonthLabel(nowMonth, i), cost |-> 0])
      ELSE Return([month |-> MonthLabel(nowMonth, i), cost |-> totalCost.val])

\* AnthropicService.getMonthlyCosts(months) as a whole
Anthropic_getMonthlyCosts(nowMonth, months, answers) ==
  [k \in 1..months |-> Anthropic_monthEntry(nowMonth, months - k, answers[months - k]).val]

(* ------------------------- CostTrackerService ------------------------- *)

\* the OpenAI loop of getMonthlyData adding the cost to the record of the label
RECURSIVE AddOpenAIMonths_Accumulates(_, _)
AddOpenAIMonths_Accumulates(combinedMap, items) ==
  IF items = <<>> THEN combinedMap
  ELSE LET item == Head(items)
           rec == [month |-> item.month, openai |-> item.cost, anthropic |-> 0]
           idx == KeyIndex([k \in DOMAIN combinedMap |-> combinedMap[k].month], item.month)
       IN  AddOpenAIMonths_Accumulates(
             IF idx # 0 THEN [combinedMap EXCEPT ![idx].openai = @ + item.cost]
             ELSE Append(combinedMap, rec),
             Tail(items))

\* "for (const item of openaiData) combinedMap.set(item.month, {...})":
\* Map.set on a key already present replaces the value in place
RECURSIVE AddOpenAIMonths(_, _)
AddOpenAIMonths(combinedMap, items) ==
  IF items = <<>> THEN combinedMap
  ELSE LET item == Head(items)
           rec == [month |-> item.month, openai |-> item.cost, anthropic |-> 0]
           idx == KeyIndex([k \in DOMAIN combinedMap |-> combinedMap[k].month], item.month)
       IN  AddOpenAIMonths(IF idx # 0 THEN [combinedMap EXCEPT ![idx] = rec]
                                      ELSE Append(combinedMap, rec),
                           Tail(items))

RECURSIVE AddAnthropicMonths(_, _)
AddAnthropicMonths(combinedMap, items) ==
  IF items = <<>> THEN combinedMap
  ELSE LET item == Head(items)
           idx == KeyIndex([k \in DOMAIN combinedMap |-> combinedMap[k].month], item.month)
       IN  AddAnthropicMonths(
             IF idx # 0 THEN [combinedMap EXCEPT ![idx].anthropic = item.cost]
             ELSE Append(combinedMap,
                         [month |-> item.month, openai |-> 0, anthropic |-> item.cost]),
             Tail(items))

\* the combine step of getMonthlyData: Array.from(combinedMap.values())
CombineMonthly(openaiData, anthropicData) ==
  AddAnthropicMonths(AddOpenAIMonths(<<>>, openaiData), anthropicData)

RECURSIVE AddOpenAIDays(_, _)
AddOpenAIDays(combinedMap, items) ==
  IF items = <<>> THEN combinedMap
  ELSE LET item == Head(items)
           rec == [date |-> item.date, openai |-> item.cost, anthropic |-> 0,
                   total |-> item.cost]
           idx == KeyIndex([k \in DOMAIN combinedMap |-> combinedMap[k].date], item.date)
       IN  AddOpenAIDays(IF idx # 0 THEN [combinedMap EXCEPT ![idx] = rec]
                                    ELSE Append(combinedMap, rec),
                         Tail(items))

\* AddAnthropicDays with "existing.total = item.cost": the OpenAI share is dropped
RECURSIVE AddAnthropicDays_TotalOverwritten(_, _)
AddAnthropicDays_TotalOverwritten(combinedMap, items) ==
  IF items = <<>> THEN combinedMap
  ELSE LET item == Head(items)
           idx == KeyIndex([k \in DOMAIN combinedMap |-> combinedMap[k].date], item.date)
       IN  AddAnthropicDays_TotalOverwritten(
             IF idx # 0
             THEN [combinedMap EXCEPT ![idx].anthropic = item.cost,
                                      ![idx].total = item.cost]
             ELSE Append(combinedMap,
                         [date |-> item.date, openai |-> 0, anthropic |-> item.cost,
                          total |-> item.cost]),
             Tail(items))

\* AddAnthropicDays without the else branch: dates only Anthropic has are dropped
RECURSIVE AddAnthropicDays_LeftJoin(_, _)
AddAnthropicDays_LeftJoin(combinedMap, items) ==
  IF items = <<>> THEN combinedMap
  ELSE LET item == Head(items)
           idx == KeyIndex([k \in DOMAIN combinedMap |-> combinedMap[k].date], item.date)
       IN  AddAnthropicDays_LeftJoin(
             IF idx # 0
             THEN [combinedMap EXCEPT ![idx].anthropic = item.cost,
                                      ![idx].total = combinedMap[idx].openai + item.cost]
             ELSE combinedMap,
             Tail(items))

\* AddAnthropicDays adding the cost to what the record already has for Anthropic
RECURSIVE AddAnthropicDays_Accumulates(_, _)
AddAnthropicDays_Accumulates(combinedMap, items) ==
  IF items = <<>> THEN combinedMap
  ELSE LET item == Head(items)
           idx == KeyIndex([k \in DOMAIN combinedMap |-> combinedMap[k].date], item.date)
       IN  AddAnthropicDays_Accumulates(
             IF idx # 0
             THEN [combinedMap EXCEPT
                     ![idx].anthropic = combinedMap[idx].anthropic + item.cost,
                     ![idx].total = combinedMap[idx].openai
                                      + combinedMap[idx].anthropic + item.cost]
             ELSE Append(combinedMap,
                         [date |-> item.date, openai |-> 0, anthropic |-> item.cost,
                          total |-> item.cost]),
             Tail(items))

RECURSIVE AddAnthropicDays(_, _)
AddAnthropicDays(combinedMap, items) ==
  IF items = <<>> THEN combinedMap
  ELSE LET item == Head(items)
           idx == KeyIndex([k \in DOMAIN combinedMap |-> combinedMap[k].date], item.date)
       IN  AddAnthropicDays(
             IF idx # 0
             THEN [combinedMap EXCEPT ![idx].anthropic = item.cost,
                                      ![idx].total = combinedMap[idx].openai + item.cost]
             ELSE Append(combinedMap,
                         [date |-> item.date, openai |-> 0, anthropic |-> item.cost,
                          total |-> item.cost]),
             Tail(items))

\* the combine step returning nothing as soon as one provider has no data
CombineDaily_BlankOnEmpty(openaiData, anthropicData) ==
  IF openaiData = <<>> \/ anthropicData = <<>> THEN <<>>
  ELSE SortByDate(AddAnthropicDays(AddOpenAIDays(<<>>, openaiData), anthropicData))

\* the combine step without the final sort: the Map's insertion order
CombineDaily_Unsorted(openaiData, anthropicData) ==
  AddAnthropicDays(AddOpenAIDays(<<>>, openaiData), anthropicData)

\* the combine step of getDailyCosts, sorted by date
CombineDaily(openaiData, anthropicData) ==
  SortByDate(AddAnthropicDays(AddOpenAIDays(<<>>, openaiData), anthropicData))

\* the summary with "total: openaiCost"
Summary_TotalOpenAIOnly(openaiCost, anthropicCost, month) ==
  [openai |-> openaiCost, anthropic |-> anthropicCost,
   total |-> openaiCost, month |-> month]

\* the record built by getCurrentMonthSummary
Summary(openaiCost, anthropicCost, month) ==
  [openai |-> openaiCost, anthropic |-> anthropicCost,
   total |-> openaiCost + anthropicCost, month |-> month]

(* ------------------------------- state -------------------------------- *)

VARIABLES
  openaiConfigured,     \* CostTrackerService.openaiConfigured
  anthropicConfigured,  \* CostTrackerService.anthropicConfigured
  openaiService,        \* CostTrackerService.openaiService: Null or an instance
  anthropicService,     \* CostTrackerService.anthropicService
  inits,                \* number of calls of init so far
  call,                 \* the aggregate call of CostTrackerService being awaited
  path,                 \* per provider, the adapter call made by that aggregate call
  result,               \* what that aggregate call delivered to its caller, once returned
  breakdown,            \* a call of AnthropicService.getModelBreakdown
  lookback,             \* a call of getMonthlyData over a long lookback
  proxy,                \* the proxy process (server.js) and the adapter calling it
  dashboard             \* the Dashboard component

gate == <<openaiConfigured, anthropicConfigured, openaiService, anthropicService>>
\* what the actions of CostTrackerService leave alone
others == <<breakdown, lookback, proxy, dashboard>>
vars == <<openaiConfigured, anthropicConfigured, openaiService, anthropicService,
          inits, call, path, result, breakdown, lookback, proxy, dashboard>>

Null == [id |-> 0]

\* the adapter called without the "?." guard
ServicePresent_Always(service) == TRUE

\* "this.openaiService?.m() ?? dflt": the adapter is called iff the field is not null
ServicePresent(service) == service # Null

Configured(p) == IF p = "openai" THEN openaiConfigured ELSE anthropicConfigured
ServiceOf(p) == IF p = "openai" THEN openaiService ELSE anthropicService

Request(endpoint, period) == [endpoint |-> endpoint, period |-> period]

(* An adapter call.  pc: "none" no adapter was called (the default value   *)
(* stands in), "fetch" awaiting getCosts / getCostReport, "usage" awaiting *)
(* getUsageReport, "delay" awaiting the 200 ms timer, "done" settled.      *)
(* hung: the upstream never answers the pending request.  log: the         *)
(* outcomes received, in order.  sent: the requests issued, in order.      *)
NoPath ==
  [pc |-> "none", hung |-> FALSE, i |-> 0, cost |-> 0, series |-> <<>>,
   log |-> <<>>, sent |-> <<>>, threw |-> FALSE]

NoCall ==
  [state |-> "idle", kind |-> "none", months |-> 0, now |-> 0,
   gate |-> [p \in Providers |-> FALSE]]

NoResult ==
  [kind |-> "none", threw |-> FALSE, summary |-> Summary(0, 0, 0), rows |-> <<>>]

\* no call of getModelBreakdown has been made.  pc: "idle", "usage" awaiting
\* getUsageReport, "done" returned.  sent: the requests issued.  resp: the
\* answer to the usage request.  models: the list returned.
NoBreakdown == [pc |-> "idle", sent |-> <<>>, resp |-> Failure, models |-> <<>>]

(* No long lookback has been asked for.  pc: "idle", "pending" awaiting     *)
(* Promise.all, "done" returned.  present: which adapters were called.     *)
(* answers: per provider, the answer to the request of each month back.    *)
NoLookback ==
  [pc |-> "idle", months |-> 0, now |-> 0,
   present |-> [p \in Providers |-> FALSE],
   answers |-> [p \in Providers |-> <<>>],
   openaiData |-> <<>>, anthropicData |-> <<>>, rows |-> <<>>]

NoBody == [hasData |-> FALSE, data |-> <<>>, has_more |-> FALSE]

\* a response of the proxy: "res.status(status).json(body)", the body being
\* the upstream page or {error: text}
ProxyResponse(status, error, page) == [status |-> status, error |-> error, page |-> page]

(* The proxy process has not been started.  pc: "down" or "up".  env: its   *)
(* process.env.  config: the last answer of /api/config.  stage: where the *)
(* getCosts call of the adapter is: "idle", "proxy" its request is with    *)
(* the proxy, "upstream" the proxy awaits OpenAI, "responded" the response *)
(* of the proxy is on its way, "done" getCosts has returned or thrown.     *)
(* upstream: the requests the proxy made for that call.  answer: what      *)
(* OpenAI did with the last one.                                           *)
ProxyDown ==
  [pc |-> "down", env |-> [openai |-> NoKey, anthropic |-> NoKey],
   config |-> [asked |-> FALSE, openaiConfigured |-> FALSE,
               anthropicConfigured |-> FALSE],
   stage |-> "idle", range |-> [start_time |-> 0, end_time |-> 0],
   upstream |-> <<>>,
   answer |-> [kind |-> "none", days |-> 0, status |-> 0, text |-> ""],
   response |-> ProxyResponse(0, "", NoBody),
   completion |-> Throw]

\* "const mockMonthlyData = [...]"
mockMonthlyData ==
  <<[month |-> "Jan", openai |-> 4520, anthropic |-> 3215],
    [month |-> "Feb", openai |-> 5280, anthropic |-> 3890],
    [month |-> "Mar", openai |-> 6130, anthropic |-> 4520],
    [month |-> "Apr", openai |-> 4890, anthropic |-> 4160],
    [month |-> "May", openai |-> 5540, anthropic |-> 4980]>>

(* "const mockDailyData = Array.from({length: 30}, ...)": the costs are     *)
(* Math.random() * 5 + 1 and Math.random() * 4 + 0.5, whatever the random  *)
(* generator gives; two draws of one day stand for the thirty days.        *)
MockDailyDraws ==
  {<<[date |-> 1, openai |-> o, anthropic |-> 250, total |-> o + 250]>> : o \in {150, 550}}

(* The Dashboard component has not been mounted: its variables as declared. *)
(* pc: "created", "summary" awaiting getCurrentMonthSummary, "history"     *)
(* awaiting Promise.all of getMonthlyData and getDailyCosts, "mounted"     *)
(* onMount has finished.  keys: openaiKey and anthropicKey of onMount.     *)
(* error: "" is null.  calls: the methods of costTracker called, in order. *)
(* received: what the awaited calls resolved with.                         *)
Unmounted ==
  [pc |-> "created",
   keys |-> [openai |-> NoKey, anthropic |-> NoKey],
   openaiCost |-> 0, anthropicCost |-> 0, totalCost |-> 0,
   loading |-> TRUE, error |-> "", useMockData |-> TRUE,
   monthlyData |-> <<>>, dailyData |-> <<>>,
   mockDailyData |-> <<>>,
   calls |-> <<>>,
   received |-> [summary |-> Summary(0, 0, 0), monthly |-> <<>>, daily |-> <<>>]]

Init ==
  /\ openaiConfigured = FALSE
  /\ anthropicConfigured = FALSE
  /\ openaiService = Null
  /\ anthropicService = Null
  /\ inits = 0
  /\ call = NoCall
  /\ path = [p \in Providers |-> NoPath]
  /\ result = NoResult
  /\ breakdown = NoBreakdown
  /\ lookback = NoLookback
  /\ proxy = ProxyDown
  /\ dashboard = Unmounted

(* ------------------------------ actions ------------------------------- *)

\* init leaving an adapter in place when its provider is switched off
init_KeepsService(config) ==
  /\ inits < MaxInits
  /\ inits' = inits + 1
  /\ openaiConfigured' = config.openai
  /\ anthropicConfigured' = config.anthropic
  /\ openaiService' = IF config.openai THEN [id |-> inits + 1] ELSE openaiService
  /\ anthropicService' = IF config.anthropic THEN [id |-> inits + 1] ELSE anthropicService
  /\ UNCHANGED <<call, path, result, others>>

\* CostTrackerService.init(config)
init(config) ==
  /\ inits < MaxInits
  /\ inits' = inits + 1
  /\ openaiConfigured' = config.openai
  /\ anthropicConfigured' = config.anthropic
  /\ openaiService' = IF config.openai THEN [id |-> inits + 1] ELSE Null
  /\ anthropicService' = IF config.anthropic THEN [id |-> inits + 1] ELSE Null
  /\ UNCHANGED <<call, path, result, others>>

(* The synchronous part of an aggregate call: both adapter methods are     *)
(* called in the array literal given to Promise.all, each runs to its      *)
(* first await (the fetch of its first request).                           *)
FirstStep(p, kind, months) ==
  IF ~ServicePresent(ServiceOf(p)) THEN NoPath
  ELSE IF kind = "monthly" /\ months = 0 THEN [NoPath EXCEPT !.pc = "done"]
  ELSE [NoPath EXCEPT !.pc = "fetch",
                      !.i = IF kind = "monthly" THEN months - 1 ELSE 0,
                      !.sent = <<Request("costs",
                                        IF kind = "monthly" THEN months - 1 ELSE 0)>>]

StartCall(kind, months, nowMonth) ==
  /\ call.state # "pending"
  /\ call' = [state |-> "pending", kind |-> kind, months |-> months, now |-> nowMonth,
              gate |-> [p \in Providers |-> Configured(p)]]
  /\ path' = [p \in Providers |-> FirstStep(p, kind, months)]
  /\ result' = NoResult
  /\ UNCHANGED <<inits, others>>

\* CostTrackerService.getCurrentMonthSummary() is called
getCurrentMonthSummary ==
  /\ \E nowMonth \in NowMonths : StartCall("summary", 0, nowMonth)
  /\ UNCHANGED gate

\* CostTrackerService.getMonthlyData(months) is called
getMonthlyData ==
  /\ \E months \in 0..MaxMonths, nowMonth \in NowMonths :
       StartCall("monthly", months, nowMonth)
  /\ UNCHANGED gate

\* getDailyCosts creating a missing OpenAI adapter on demand
getDailyCosts_LazyService ==
  /\ StartCall("daily", 0, 0)
  /\ openaiService' = IF openaiService = Null THEN [id |-> inits + 1] ELSE openaiService
  /\ UNCHANGED <<openaiConfigured, anthropicConfigured, anthropicService>>

\* CostTrackerService.getDailyCosts(days) is called
getDailyCosts ==
  /\ StartCall("daily", 0, 0)
  /\ UNCHANGED gate

Awaiting(p, pc) ==
  /\ call.state = "pending"
  /\ path[p].pc = pc
  /\ ~path[p].hung

Settle(pth, completion, resp) ==
  [pth EXCEPT !.pc = "done", !.threw = completion.threw,
              !.log = Append(@, resp)]

\* OpenAIService.getCurrentMonthCost: the request returns or fails
OpenAICurrentMonthReturns ==
  /\ call.kind = "summary"
  /\ Awaiting("openai", "fetch")
  /\ \E resp \in OpenAIMonthOutcomes :
       LET c == OpenAI_getCurrentMonthCost(resp)
       IN  path' = [path EXCEPT !["openai"] =
                      [Settle(@, c, resp) EXCEPT !.cost = IF c.threw THEN 0 ELSE c.val]]
  /\ UNCHANGED <<gate, inits, call, result, others>>

\* AnthropicService.getCurrentMonthCost: the cost report returns or fails
AnthropicCurrentMonthReturns ==
  /\ call.kind = "summary"
  /\ Awaiting("anthropic", "fetch")
  /\ \E resp \in AnthropicMonthOutcomes :
       LET c == Anthropic_costReportPath(resp)
       IN  path' = [path EXCEPT !["anthropic"] =
                      IF c.threw
                      THEN [@ EXCEPT !.pc = "usage", !.log = Append(@, resp),
                                     !.sent = Append(@, Request("usage", 0))]
                      ELSE [Settle(@, c, resp) EXCEPT !.cost = c.val]]
  /\ UNCHANGED <<gate, inits, call, result, others>>

\* AnthropicService.calculateCostFromUsage: the usage report returns or fails
AnthropicUsageReturns ==
  /\ call.kind = "summary"
  /\ Awaiting("anthropic", "usage")
  /\ \E resp \in UsageOutcomes :
       LET c == calculateCostFromUsage(resp)
       IN  path' = [path EXCEPT !["anthropic"] =
                      [Settle(@, c, resp) EXCEPT !.cost = IF c.threw THEN 0 ELSE c.val]]
  /\ UNCHANGED <<gate, inits, call, result, others>>

\* OpenAIService.getDailyCosts: the request returns or fails
OpenAIDailyReturns ==
  /\ call.kind = "daily"
  /\ Awaiting("openai", "fetch")
  /\ \E resp \in OpenAIDailyOutcomes :
       LET c == OpenAI_getDailyCosts(resp)
       IN  path' = [path EXCEPT !["openai"] =
                      [Settle(@, c, resp) EXCEPT !.series = IF c.threw THEN <<>> ELSE c.val]]
  /\ UNCHANGED <<gate, inits, call, result, others>>

\* AnthropicService.getDailyCosts: the cost report returns or fails
AnthropicDailyReturns ==
  /\ call.kind = "daily"
  /\ Awaiting("anthropic", "fetch")
  /\ \E resp \in AnthropicDailyOutcomes :
       LET c == Anthropic_getDailyCosts(resp)
       IN  path' = [path EXCEPT !["anthropic"] =
                      [Settle(@, c, resp) EXCEPT !.series = IF c.threw THEN <<>> ELSE c.val]]
  /\ UNCHANGED <<gate, inits, call, result, others>>

\* the for loop with the condition "i > 0": the current month is never fetched
NextMonth_OffByOne(pth) ==
  IF pth.i - 1 > 0
  THEN [pth EXCEPT !.pc = "fetch", !.i = @ - 1,
                   !.sent = Append(@, Request("costs", pth.i - 1))]
  ELSE [pth EXCEPT !.pc = "done", !.i = @ - 1]

\* the loop fetching a month again, once, when its fetch has just failed
NextMonth_RetryFailedMonth(pth) ==
  IF /\ pth.log # <<>>
     /\ ~pth.log[Len(pth.log)].ok
     /\ Cardinality({k \in DOMAIN pth.sent : pth.sent[k] = Request("costs", pth.i)}) = 1
  THEN [pth EXCEPT !.pc = "fetch", !.sent = Append(@, Request("costs", pth.i))]
  ELSE IF pth.i - 1 >= 0
  THEN [pth EXCEPT !.pc = "fetch", !.i = @ - 1,
                   !.sent = Append(@, Request("costs", pth.i - 1))]
  ELSE [pth EXCEPT !.pc = "done", !.i = @ - 1]

\* the for loop of getMonthlyCosts moves on: "i--", then the next fetch or the return
NextMonth(pth) ==
  IF pth.i - 1 >= 0
  THEN [pth EXCEPT !.pc = "fetch", !.i = @ - 1,
                   !.sent = Append(@, Request("costs", pth.i - 1))]
  ELSE [pth EXCEPT !.pc = "done", !.i = @ - 1]

\* OpenAIService.getMonthlyCosts: the request of month i returns or fails
OpenAIMonthReturns ==
  /\ call.kind = "monthly"
  /\ Awaiting("openai", "fetch")
  /\ \E resp \in OpenAIMonthOutcomes :
       LET c == OpenAI_monthEntry(call.now, path["openai"].i, resp)
       IN  path' = [path EXCEPT !["openai"] =
                      IF c.threw THEN Settle(@, c, resp)
                      ELSE [@ EXCEPT !.pc = "delay", !.log = Append(@, resp),
                                     !.series = Append(@, c.val)]]
  /\ UNCHANGED <<gate, inits, call, result, others>>

\* AnthropicService.getMonthlyCosts: the request of month i returns or fails
AnthropicMonthReturns ==
  /\ call.kind = "monthly"
  /\ Awaiting("anthropic", "fetch")
  /\ \E resp \in AnthropicMonthOutcomes :
       LET c == Anthropic_monthEntry(call.now, path["anthropic"].i, resp)
           pushed == [path["anthropic"] EXCEPT !.log = Append(@, resp),
                                               !.series = Append(@, c.val)]
       IN  path' = [path EXCEPT !["anthropic"] =
                      IF c.threw THEN Settle(@, c, resp)
                      ELSE IF Anthropic_monthContinues(resp) THEN NextMonth(pushed)
                      ELSE [pushed EXCEPT !.pc = "delay"]]
  /\ UNCHANGED <<gate, inits, call, result, others>>

\* "await new Promise(resolve => setTimeout(resolve, 200))" elapses
DelayElapses(p) ==
  /\ call.kind = "monthly"
  /\ Awaiting(p, "delay")
  /\ path' = [path EXCEPT ![p] = NextMonth(@)]
  /\ UNCHANGED <<gate, inits, call, result, others>>

\* the upstream never answers the pending request of provider p
UpstreamHangs(p) ==
  /\ call.state = "pending"
  /\ path[p].pc \in {"fetch", "usage"}
  /\ ~path[p].hung
  /\ path' = [path EXCEPT ![p].hung = TRUE]
  /\ UNCHANGED <<gate, inits, call, result, others>>

\* Promise.race in place of Promise.all: settled as soon as one element is
PromiseAllSettles_Race(paths) ==
  \E p \in Providers : paths[p].pc \in {"none", "done"}

\* Promise.all: fulfilled when every element is settled, rejected when one rejects
PromiseAllSettles(paths) ==
  \/ \A p \in Providers : paths[p].pc \in {"none", "done"}
  \/ \E p \in Providers : paths[p].pc = "done" /\ paths[p].threw

AnyThrew == \E p \in Providers : path[p].pc = "done" /\ path[p].threw

\* the combine loops consuming their inputs ("openaiData.shift()"): the adapter
\* results are emptied by the call
Deliver_DrainsInput(kind, summary, rows) ==
  /\ call.state = "pending"
  /\ call.kind = kind
  /\ PromiseAllSettles(path)
  /\ result' = IF AnyThrew
               THEN [kind |-> kind, threw |-> TRUE, summary |-> Summary(0, 0, 0),
                     rows |-> <<>>]
               ELSE [kind |-> kind, threw |-> FALSE, summary |-> summary, rows |-> rows]
  /\ call' = [call EXCEPT !.state = "returned"]
  /\ path' = [p \in Providers |-> [path[p] EXCEPT !.series = <<>>]]
  /\ UNCHANGED <<gate, inits, others>>

Deliver(kind, summary, rows) ==
  /\ call.state = "pending"
  /\ call.kind = kind
  /\ PromiseAllSettles(path)
  /\ result' = IF AnyThrew
               THEN [kind |-> kind, threw |-> TRUE, summary |-> Summary(0, 0, 0),
                     rows |-> <<>>]
               ELSE [kind |-> kind, threw |-> FALSE, summary |-> summary, rows |-> rows]
  /\ call' = [call EXCEPT !.state = "returned"]
  /\ UNCHANGED <<gate, inits, path, others>>

\* getCurrentMonthSummary resumes after "await Promise.all" and returns
CurrentMonthSummaryReturns ==
  Deliver("summary", Summary(path["openai"].cost, path["anthropic"].cost, call.now), <<>>)

\* getMonthlyData resumes after "await Promise.all", combines and returns
MonthlyDataReturns ==
  Deliver("monthly", Summary(0, 0, 0),
          CombineMonthly(path["openai"].series, path["anthropic"].series))

\* getDailyCosts resumes after "await Promise.all", combines and returns
DailyCostsReturns ==
  Deliver("daily", Summary(0, 0, 0),
          CombineDaily(path["openai"].series, path["anthropic"].series))

Next ==
  \/ \E config \in [openai : BOOLEAN, anthropic : BOOLEAN] : init(config)
  \/ getCurrentMonthSummary
  \/ getMonthlyData
  \/ getDailyCosts
  \/ OpenAICurrentMonthReturns
  \/ AnthropicCurrentMonthReturns
  \/ AnthropicUsageReturns
  \/ OpenAIDailyReturns
  \/ AnthropicDailyReturns
  \/ OpenAIMonthReturns
  \/ AnthropicMonthReturns
  \/ \E p \in Providers : DelayElapses(p)
  \/ \E p \in Providers : UpstreamHangs(p)
  \/ CurrentMonthSummaryReturns
  \/ MonthlyDataReturns
  \/ DailyCostsReturns

Spec == Init /\ [][Next]_vars

(* ---------- the same service with the direct-key OpenAIService --------- *)

\* OpenAIService.getCurrentMonthCost (direct-key): the request returns or fails
Direct_OpenAICurrentMonthReturns ==
  /\ call.kind = "summary"
  /\ Awaiting("openai", "fetch")
  /\ \E resp \in DirectMonthOutcomes :
       LET c == Direct_getCurrentMonthCost(resp)
       IN  path' = [path EXCEPT !["openai"] =
                      [Settle(@, c, resp) EXCEPT !.cost = IF c.threw THEN 0 ELSE c.val]]
  /\ UNCHANGED <<gate, inits, call, result, others>>

\* OpenAIService.getDailyCosts (direct-key): the request returns or fails
Direct_OpenAIDailyReturns ==
  /\ call.kind = "daily"
  /\ Awaiting("openai", "fetch")
  /\ \E resp \in DirectDailyOutcomes :
       LET c == Direct_getDailyCosts(resp)
       IN  path' = [path EXCEPT !["openai"] =
                      [Settle(@, c, resp) EXCEPT !.series = IF c.threw THEN <<>> ELSE c.val]]
  /\ UNCHANGED <<gate, inits, call, result, others>>

\* OpenAIService.getMonthlyCosts (direct-key): the request of month i returns or fails
Direct_OpenAIMonthReturns ==
  /\ call.kind = "monthly"
  /\ Awaiting("openai", "fetch")
  /\ \E resp \in DirectMonthOutcomes :
       LET c == Direct_monthEntry(call.now, path["openai"].i, resp)
       IN  path' = [path EXCEPT !["openai"] =
                      IF c.threw THEN Settle(@, c, resp)
                      ELSE [@ EXCEPT !.pc = "delay", !.log = Append(@, resp),
                                     !.series = Append(@, c.val)]]
  /\ UNCHANGED <<gate, inits, call, result, others>>

NextDirect ==
  \/ \E config \in [openai : BOOLEAN, anthropic : BOOLEAN] : init(config)
  \/ getCurrentMonthSummary
  \/ getMonthlyData
  \/ getDailyCosts
  \/ Direct_OpenAICurrentMonthReturns
  \/ AnthropicCurrentMonthReturns
  \/ AnthropicUsageReturns
  \/ Direct_OpenAIDailyReturns
  \/ AnthropicDailyReturns
  \/ Direct_OpenAIMonthReturns
  \/ AnthropicMonthReturns
  \/ \E p \in Providers : DelayElapses(p)
  \/ \E p \in Providers : UpstreamHangs(p)
  \/ CurrentMonthSummaryReturns
  \/ MonthlyDataReturns
  \/ DailyCostsReturns

SpecDirect == Init /\ [][NextDirect]_vars

(* ------------------------------ Dashboard ------------------------------ *)

\* what costTracker.isConfigured() answers after init(openaiKey, anthropicKey):
\* a provider without a key is not configured
IsConfiguredResults(keys) ==
  {configured \in [openai : BOOLEAN, anthropic : BOOLEAN] :
     /\ configured.openai => keys.openai # NoKey
     /\ configured.anthropic => keys.anthropic # NoKey}

\* what "await costTracker.getCurrentMonthSummary()" gives: a summary, or a throw
SummaryOutcomes ==
  {Throw} \cup {Return(Summary(o, a, 0)) : o \in {0, 1250}, a \in {0, 425}}

\* what "await Promise.all([getMonthlyData(6), getDailyCosts(30)])" gives
HistoryOutcomes ==
  {Throw}
    \cup {Return([monthly |-> m, daily |-> d]) :
            m \in {<<>>, <<[month |-> "Jun", openai |-> 1250, anthropic |-> 425]>>},
            d \in {<<>>, <<[date |-> 1, openai |-> 1250, anthropic |-> 425,
                            total |-> 1675]>>}}

\* loadMockData also switching the demo flag off
loadMockData_ClearsFlag(d) ==
  [d EXCEPT !.openaiCost = 7345, !.anthropicCost = 5890, !.totalCost = 7345 + 5890,
            !.monthlyData = mockMonthlyData, !.dailyData = d.mockDailyData,
            !.loading = FALSE, !.useMockData = FALSE]

\* loadMockData without its last line, "loading = false"
loadMockData_LeavesLoading(d) ==
  [d EXCEPT !.openaiCost = 7345, !.anthropicCost = 5890, !.totalCost = 7345 + 5890,
            !.monthlyData = mockMonthlyData, !.dailyData = d.mockDailyData]

\* loadMockData()
loadMockData(d) ==
  [d EXCEPT !.openaiCost = 7345, !.anthropicCost = 5890, !.totalCost = 7345 + 5890,
            !.monthlyData = mockMonthlyData, !.dailyData = d.mockDailyData,
            !.loading = FALSE]

\* "openaiKey || anthropicKey"
KeysPresent(keys) == keys.openai # NoKey \/ keys.anthropic # NoKey

\* loadRealData up to its first await
loadRealData(d) ==
  [d EXCEPT !.pc = "summary", !.loading = TRUE, !.error = "",
            !.calls = Append(@, "getCurrentMonthSummary")]

\* the catch and the finally of loadRealData, which ends onMount
loadRealDataFails(d, message) ==
  [loadMockData([d EXCEPT !.error = message]) EXCEPT !.loading = FALSE, !.pc = "mounted"]

\* onMount up to its first await, or to its end when mock data is loaded
Mount ==
  /\ dashboard.pc = "created"
  /\ \E keys \in Environments, draw \in MockDailyDraws :
       \E configured \in IsConfiguredResults(keys) :
         LET d == [dashboard EXCEPT !.keys = keys, !.mockDailyData = draw]
             asked == [d EXCEPT !.calls = <<"init", "isConfigured">>]
         IN  dashboard' =
               IF KeysPresent(keys)
               THEN IF configured.openai \/ configured.anthropic
                    THEN loadRealData([asked EXCEPT !.useMockData = FALSE])
                    ELSE [loadMockData(asked) EXCEPT !.pc = "mounted"]
               ELSE [loadMockData(d) EXCEPT !.pc = "mounted"]
  /\ UNCHANGED <<gate, inits, call, path, result, breakdown, lookback, proxy>>

\* loadRealData resumes after "await costTracker.getCurrentMonthSummary()"
SummaryArrives ==
  /\ dashboard.pc = "summary"
  /\ \E outcome \in SummaryOutcomes :
       dashboard' =
         IF outcome.threw THEN loadRealDataFails(dashboard, "summary failed")
         ELSE [dashboard EXCEPT
                 !.pc = "history",
                 !.openaiCost = outcome.val.openai,
                 !.anthropicCost = outcome.val.anthropic,
                 !.totalCost = outcome.val.total,
                 !.received.summary = outcome.val,
                 !.calls = @ \o <<"getMonthlyData", "getDailyCosts">>]
  /\ UNCHANGED <<gate, inits, call, path, result, breakdown, lookback, proxy>>

\* loadRealData resumes after "await Promise.all([...])" and ends, and onMount with it
HistoryArrives ==
  /\ dashboard.pc = "history"
  /\ \E outcome \in HistoryOutcomes :
       dashboard' =
         IF outcome.threw THEN loadRealDataFails(dashboard, "history failed")
         ELSE [dashboard EXCEPT
                 !.pc = "mounted",
                 !.monthlyData = outcome.val.monthly,
                 !.dailyData = outcome.val.daily,
                 !.received.monthly = outcome.val.monthly,
                 !.received.daily = outcome.val.daily,
                 !.loading = FALSE]
  /\ UNCHANGED <<gate, inits, call, path, result, breakdown, lookback, proxy>>

NextDashboard ==
  \/ Mount
  \/ SummaryArrives
  \/ HistoryArrives

SpecDashboard == Init /\ [][NextDashboard]_vars

\* every awaited call of costTracker eventually returns or fails
SpecDashboardFair ==
  SpecDashboard /\ WF_vars(SummaryArrives) /\ WF_vars(HistoryArrives)

(* ------------- the proxy (server.js) and OpenAIService.getCosts -------- *)

\* "app.listen": the proxy process starts with the environment of its .env
ProxyListens ==
  /\ proxy.pc = "down"
  /\ \E env \in Environments : proxy' = [proxy EXCEPT !.pc = "up", !.env = env]
  /\ UNCHANGED <<gate, inits, call, path, result, breakdown, lookback, dashboard>>

\* GET /api/config
ConfigAnswered ==
  /\ proxy.pc = "up"
  /\ ~proxy.config.asked
  /\ proxy' = [proxy EXCEPT
                 !.config = [asked |-> TRUE,
                             openaiConfigured |-> proxy.env.openai # NoKey,
                             anthropicConfigured |-> proxy.env.anthropic # NoKey]]
  /\ UNCHANGED <<gate, inits, call, path, result, breakdown, lookback, dashboard>>

\* OpenAIService.getCosts(startDate, endDate) is called and fetches from the proxy
GetCostsCalled ==
  /\ proxy.pc = "up"
  /\ proxy.stage \in {"idle", "done"}
  /\ \E range \in Ranges :
       proxy' = [proxy EXCEPT !.stage = "proxy", !.range = range,
                              !.upstream = <<>>, !.answer = ProxyDown.answer,
                              !.response = ProxyDown.response,
                              !.completion = ProxyDown.completion]
  /\ UNCHANGED <<gate, inits, call, path, result, breakdown, lookback, dashboard>>

\* the URL and headers of the request to api.openai.com
UpstreamRequest(range, key) ==
  [start_time |-> range.start_time, end_time |-> range.end_time,
   bucket_width |-> "1d", limit |-> PageLimit,
   Authorization |-> [scheme |-> "Bearer", key |-> key]]

\* GET /api/openai/costs up to its await: 500 without a key, else the fetch
ProxyReceives ==
  /\ proxy.stage = "proxy"
  /\ proxy' =
       IF proxy.env.openai = NoKey
       THEN [proxy EXCEPT !.stage = "responded",
                          !.response = ProxyResponse(500, "OpenAI API key not configured",
                                                     NoBody)]
       ELSE [proxy EXCEPT !.stage = "upstream",
                          !.upstream = Append(@, UpstreamRequest(proxy.range,
                                                                 proxy.env.openai))]
  /\ UNCHANGED <<gate, inits, call, path, result, breakdown, lookback, dashboard>>

\* the handler asking for the next page while the answer has has_more
ProxyForwards_Paginates(answer) ==
  /\ proxy.stage = "upstream"
  /\ proxy' =
       IF answer.kind = "page" /\ answer.days > PageLimit /\ Len(proxy.upstream) = 1
       THEN [proxy EXCEPT !.answer = answer,
                          !.upstream = Append(@, UpstreamRequest(proxy.range,
                                                                 proxy.env.openai))]
       ELSE [proxy EXCEPT
               !.stage = "responded",
               !.answer = answer,
               !.response =
                  CASE answer.kind = "page" ->
                         ProxyResponse(200, "",
                                       UpstreamPage(proxy.upstream[Len(proxy.upstream)],
                                                    answer.days))
                    [] answer.kind = "error" ->
                         ProxyResponse(answer.status, answer.text, NoBody)
                    [] OTHER -> ProxyResponse(500, answer.text, NoBody)]
  /\ UNCHANGED <<gate, inits, call, path, result, breakdown, lookback, dashboard>>

(* GET /api/openai/costs after its await: the page is passed on as it is,  *)
(* an error status is passed on with {error: errorText}, a throw of fetch  *)
(* becomes 500 with {error: error.message}.                                *)
ProxyForwards(answer) ==
  /\ proxy.stage = "upstream"
  /\ proxy' = [proxy EXCEPT
                 !.stage = "responded",
                 !.answer = answer,
                 !.response =
                    CASE answer.kind = "page" ->
                           ProxyResponse(200, "",
                                         UpstreamPage(proxy.upstream[Len(proxy.upstream)],
                                                      answer.days))
                      [] answer.kind = "error" ->
                           ProxyResponse(answer.status, answer.text, NoBody)
                      [] OTHER -> ProxyResponse(500, answer.text, NoBody)]
  /\ UNCHANGED <<gate, inits, call, path, result, breakdown, lookback, dashboard>>

\* getCosts after its await: "response.ok" or the throw
GetCostsReturns ==
  /\ proxy.stage = "responded"
  /\ proxy' = [proxy EXCEPT
                 !.stage = "done",
                 !.completion = getCosts([ok |-> proxy.response.status = 200,
                                          body |-> proxy.response.page])]
  /\ UNCHANGED <<gate, inits, call, path, result, breakdown, lookback, dashboard>>

NextProxy ==
  \/ ProxyListens
  \/ ConfigAnswered
  \/ GetCostsCalled
  \/ ProxyReceives
  \/ \E answer \in UpstreamAnswers : ProxyForwards(answer)
  \/ GetCostsReturns

SpecProxy == Init /\ [][NextProxy]_vars

(* ----------------- getMonthlyData over a long lookback ----------------- *)

\* CostTrackerService.getMonthlyData(months) is called: the adapters present
\* are called and Promise.all awaited
LookbackCalled ==
  /\ lookback.pc # "pending"
  /\ \E months \in 0..MaxLookback, nowMonth \in NowMonths :
       lookback' = [NoLookback EXCEPT
                      !.pc = "pending", !.months = months, !.now = nowMonth,
                      !.present = [p \in Providers |-> ServicePresent(ServiceOf(p))]]
  /\ UNCHANGED <<gate, inits, call, path, result, breakdown, proxy, dashboard>>

\* both getMonthlyCosts calls have returned: getMonthlyData combines and returns
LookbackReturns ==
  /\ lookback.pc = "pending"
  /\ \E openaiAnswers \in LookbackPlans(OpenAIMonthOutcomes),
        anthropicAnswers \in LookbackPlans(AnthropicMonthOutcomes) :
       LET openaiData ==
             IF lookback.present["openai"]
             THEN OpenAI_getMonthlyCosts(lookback.now, lookback.months, openaiAnswers)
             ELSE <<>>
           anthropicData ==
             IF lookback.present["anthropic"]
             THEN Anthropic_getMonthlyCosts(lookback.now, lookback.months,
                                            anthropicAnswers)
             ELSE <<>>
       IN  lookback' = [lookback EXCEPT
                          !.pc = "done",
                          !.answers = [p \in Providers |->
                                         IF ~lookback.present[p] THEN <<>>
                                         ELSE IF p = "openai" THEN openaiAnswers
                                         ELSE anthropicAnswers],
                          !.openaiData = openaiData,
                          !.anthropicData = anthropicData,
                          !.rows = CombineMonthly(openaiData, anthropicData)]
  /\ UNCHANGED <<gate, inits, call, path, result, breakdown, proxy, dashboard>>

NextLookback ==
  \/ \E config \in [openai : BOOLEAN, anthropic : BOOLEAN] : init(config)
  \/ LookbackCalled
  \/ LookbackReturns

SpecLookback == Init /\ [][NextLookback]_vars

(* ------------------- AnthropicService.getModelBreakdown ---------------- *)

\* getModelBreakdown(startDate, endDate) is called and awaits getUsageReport
ModelBreakdownCalled ==
  /\ breakdown.pc # "usage"
  /\ breakdown' = [NoBreakdown EXCEPT !.pc = "usage", !.sent = <<Request("usage", 0)>>]
  /\ UNCHANGED <<gate, inits, call, path, result, lookback, proxy, dashboard>>

\* the usage request returns or fails, and getModelBreakdown returns
ModelBreakdownReturns ==
  /\ breakdown.pc = "usage"
  /\ \E resp \in BreakdownOutcomes :
       breakdown' = [breakdown EXCEPT !.pc = "done", !.resp = resp,
                                      !.models = Anthropic_getModelBreakdown(resp)]
  /\ UNCHANGED <<gate, inits, call, path, result, lookback, proxy, dashboard>>

NextBreakdown ==
  \/ ModelBreakdownCalled
  \/ ModelBreakdownReturns

SpecBreakdown == Init /\ [][NextBreakdown]_vars

(* ------------------------------ claims -------------------------------- *)

Returned(kind) == call.state = "returned" /\ call.kind = kind /\ ~result.threw

\* the dates / month labels that occur in a series
DatesOf(series) == {series[k].date : k \in DOMAIN series}
MonthsOf(series) == {series[k].month : k \in DOMAIN series}

\* A[date]: the cost a series carries for a date (its last entry of that date), 0
\* when the date is missing
CostAt(series, d) ==
  IF d \in DatesOf(series)
  THEN LET last == CHOOSE k \in DOMAIN series :
                     /\ series[k].date = d
                     /\ \A j \in DOMAIN series : series[j].date = d => j <= k
       IN  series[last].cost
  ELSE 0

CostAtMonth(series, m) ==
  IF m \in MonthsOf(series)
  THEN LET last == CHOOSE k \in DOMAIN series :
                     /\ series[k].month = m
                     /\ \A j \in DOMAIN series : series[j].month = m => j <= k
       IN  series[last].cost
  ELSE 0

\* the total a combined daily series shows for a date
TotalAt(rows, d) ==
  LET k == CHOOSE k \in DOMAIN rows : rows[k].date = d IN rows[k].total

(* C1: every record of getDailyCosts has total = openai + anthropic with   *)
(* openai = A[date] and anthropic = B[date] (0 for a missing date), A and  *)
(* B being the series the two adapters returned; combining with the two    *)
(* series swapped between the providers gives the same total for each date.*)
C1_DailyTotalsAdditive ==
  Returned("daily") =>
    LET A == path["openai"].series
        B == path["anthropic"].series
        swapped == CombineDaily(B, A)
    IN  /\ \A k \in DOMAIN result.rows :
             /\ result.rows[k].openai = CostAt(A, result.rows[k].date)
             /\ result.rows[k].anthropic = CostAt(B, result.rows[k].date)
             /\ result.rows[k].total = CostAt(A, result.rows[k].date)
                                         + CostAt(B, result.rows[k].date)
        /\ DatesOf(swapped) = DatesOf(result.rows)
        /\ \A d \in DatesOf(result.rows) : TotalAt(swapped, d) = TotalAt(result.rows, d)

\* OpenAI has days 1 and 2, Anthropic day 2 only; day 2 adds both providers
C1_Witness ==
  /\ Returned("daily")
  /\ DatesOf(path["openai"].series) = {1, 2}
  /\ DatesOf(path["anthropic"].series) = {2}
  /\ \E k \in DOMAIN result.rows :
       /\ result.rows[k].openai > 0
       /\ result.rows[k].anthropic > 0
       /\ result.rows[k].total = result.rows[k].openai + result.rows[k].anthropic

NoDuplicates(keys) ==
  \A j, k \in DOMAIN keys : j # k => keys[j] # keys[k]

(* C2: the combine step of getDailyCosts and of getMonthlyData is a full   *)
(* outer join: the keys of the output are the union of the keys of the two *)
(* input series, each key is in exactly one output record, and a key that  *)
(* only one input series has carries 0 for the other provider.             *)
C2_FullOuterJoin ==
  /\ Returned("daily") =>
       LET A == path["openai"].series
           B == path["anthropic"].series
       IN  /\ DatesOf(result.rows) = DatesOf(A) \cup DatesOf(B)
           /\ NoDuplicates([k \in DOMAIN result.rows |-> result.rows[k].date])
           /\ \A k \in DOMAIN result.rows :
                /\ result.rows[k].date \notin DatesOf(B) => result.rows[k].anthropic = 0
                /\ result.rows[k].date \notin DatesOf(A) => result.rows[k].openai = 0
  /\ Returned("monthly") =>
       LET A == path["openai"].series
           B == path["anthropic"].series
       IN  /\ MonthsOf(result.rows) = MonthsOf(A) \cup MonthsOf(B)
           /\ NoDuplicates([k \in DOMAIN result.rows |-> result.rows[k].month])
           /\ \A k \in DOMAIN result.rows :
                /\ result.rows[k].month \notin MonthsOf(B) => result.rows[k].anthropic = 0
                /\ result.rows[k].month \notin MonthsOf(A) => result.rows[k].openai = 0

\* each provider has a date the other has not
C2_Witness ==
  /\ Returned("daily")
  /\ DatesOf(path["openai"].series) = {2}
  /\ DatesOf(path["anthropic"].series) = {1}
  /\ Len(result.rows) = 2

\* the monthly adapter calls of the aggregate call in progress
MonthlyPath(p) == call.kind = "monthly" /\ path[p].pc # "none"

AllFailed(log) == \A k \in DOMAIN log : ~log[k].ok

(* C3: getMonthlyCosts(n) of either adapter returns exactly n entries, one *)
(* per requested calendar month (entry k is the month n - k months before  *)
(* the current one, k = 1..n), each with a cost >= 0, whatever the         *)
(* outcomes of the n fetches; all entries are 0 when every fetch failed.   *)
C3_MonthlyCostsHasNEntries ==
  \A p \in Providers :
    (MonthlyPath(p) /\ path[p].pc = "done") =>
      /\ ~path[p].threw
      /\ Len(path[p].series) = call.months
      /\ \A k \in DOMAIN path[p].series :
           /\ path[p].series[k].cost >= 0
           /\ path[p].series[k].month
                = (call.now + MonthsPerYear * call.months - (call.months - k))
                    % MonthsPerYear
      /\ AllFailed(path[p].log) =>
           \A k \in DOMAIN path[p].series : path[p].series[k].cost = 0

\* both adapters returned MaxMonths zero entries after every fetch failed
C3_Witness ==
  /\ call.kind = "monthly"
  /\ call.months = MaxMonths
  /\ \A p \in Providers :
       /\ path[p].pc = "done"
       /\ Len(path[p].log) = MaxMonths
       /\ AllFailed(path[p].log)
       /\ Len(path[p].series) = MaxMonths

\* the value of a line item: amount.value of OpenAI, the amount string of Anthropic
AmountValue(p, item) ==
  IF p = "openai" THEN item
  ELSE CASE item = "4.25" -> 425 [] item = "12.50" -> 1250 [] OTHER -> 0

RECURSIVE ItemSum(_, _, _)
ItemSum(p, items, n) ==
  IF n = 0 THEN 0 ELSE ItemSum(p, items, n - 1) + AmountValue(p, items[n])

RECURSIVE BucketsSum(_, _, _)
BucketsSum(p, buckets, n) ==
  IF n = 0 THEN 0
  ELSE BucketsSum(p, buckets, n - 1)
         + ItemSum(p, buckets[n].results, Len(buckets[n].results))

Malformed(body) ==
  ~body.hasData \/ \E k \in DOMAIN body.data : ~body.data[k].hasResults

\* the cost of one month as its own response determines it
ExpectedMonthCost(p, resp) ==
  IF ~resp.ok \/ Malformed(resp.body) THEN 0
  ELSE BucketsSum(p, resp.body.data, Len(resp.body.data))

(* C4: in getMonthlyCosts a failed fetch of a month sets only that month's *)
(* entry to 0 and the loop goes on: at every moment there is one entry per *)
(* answered fetch, entry k is 0 when fetch k failed and otherwise the sum  *)
(* of the line items of response k, whatever happened to the other months, *)
(* and the call ends only after all the months.                            *)
C4_MonthlyFailuresIsolated ==
  \A p \in Providers :
    MonthlyPath(p) =>
      /\ Len(path[p].series) = Len(path[p].log)
      /\ \A k \in DOMAIN path[p].series :
           path[p].series[k].cost = ExpectedMonthCost(p, path[p].log[k])
      /\ path[p].pc = "done" => Len(path[p].log) = call.months

\* the first month failed, the second month was fetched and has its own sum
C4_Witness ==
  \E p \in Providers :
    /\ MonthlyPath(p)
    /\ path[p].pc = "done"
    /\ Len(path[p].log) = 2
    /\ ~path[p].log[1].ok
    /\ path[p].log[2].ok
    /\ path[p].series[1].cost = 0
    /\ path[p].series[2].cost > 0

(* C5: an upstream failure never leaves an aggregate method as an          *)
(* exception: no adapter call (getCurrentMonthCost, getMonthlyCosts,       *)
(* getDailyCosts) and no call of CostTrackerService ends by throwing, a    *)
(* returned call carries a value; the low-level getCosts, getCostReport    *)
(* and getUsageReport throw on each failed request.                        *)
C5_FailuresNotPropagated ==
  /\ \A p \in Providers : ~path[p].threw
  /\ ~result.threw
  /\ call.state = "returned" => result.kind = call.kind
  /\ \A p \in Providers : \A k \in DOMAIN path[p].log :
       ~path[p].log[k].ok =>
         /\ getCosts(path[p].log[k]).threw
         /\ getCostReport(path[p].log[k]).threw
         /\ getUsageReport(path[p].log[k]).threw

\* a summary was returned although every request of both providers failed
C5_Witness ==
  /\ call.state = "returned"
  /\ call.kind = "summary"
  /\ path["openai"].log = <<Failure>>
  /\ path["anthropic"].log = <<Failure, Failure>>
  /\ ~result.threw

\* a request is issued for provider p in this step
Issues(p) ==
  /\ path'[p].sent # <<>>
  /\ \/ call.state # "pending" /\ call'.state = "pending"
     \/ Len(path'[p].sent) > Len(path[p].sent)

(* C6 as claimed: once init has been called, no network call is ever       *)
(* issued for a provider that is not configured at that moment.            *)
C6_NoRequestWhileUnconfigured ==
  [][\A p \in Providers : (inits >= 1 /\ Issues(p)) => Configured(p)]_vars

(* C6: an aggregate call of CostTrackerService issues network calls only   *)
(* for the providers that were configured when the call was made: it       *)
(* consults the gate once, on entry; a provider absent then gets no        *)
(* request during the whole call and counts as 0 or as an empty series.    *)
C6_RequestsOnlyForGatedProviders ==
  \A p \in Providers :
    /\ path[p].sent # <<>> => call.gate[p]
    /\ (call.state # "idle" /\ ~call.gate[p]) =>
         /\ path[p] = NoPath
         /\ Returned("summary") => result.summary[p] = 0
         /\ (Returned("daily") \/ Returned("monthly")) =>
              \A k \in DOMAIN result.rows : result.rows[k][p] = 0

\* after init, a returned call that fetched for OpenAI only
C6_Witness ==
  /\ inits >= 1
  /\ Returned("daily")
  /\ call.gate["openai"] /\ ~call.gate["anthropic"]
  /\ path["openai"].sent # <<>>
  /\ path["anthropic"].sent = <<>>
  /\ result.rows # <<>>

(* C7: getCurrentMonthSummary returns, per provider, the result of the     *)
(* adapter's getCurrentMonthCost, or 0 for a provider that is not          *)
(* configured, and total = openai + anthropic; with neither provider       *)
(* configured it returns 0, 0, 0 and no request is issued.                 *)
C7_SummaryAdditive ==
  /\ Returned("summary") =>
       /\ \A p \in Providers :
            result.summary[p] = IF call.gate[p] THEN path[p].cost ELSE 0
       /\ call.gate["openai"] =>
            result.summary.openai = ExpectedMonthCost("openai", path["openai"].log[1])
       /\ result.summary.total = result.summary.openai + result.summary.anthropic
       /\ (\A p \in Providers : ~call.gate[p]) =>
            /\ result.summary.openai = 0
            /\ result.summary.anthropic = 0
            /\ result.summary.total = 0
  /\ (call.kind = "summary" /\ \A p \in Providers : ~call.gate[p]) =>
       \A p \in Providers : path[p].sent = <<>>

\* OpenAI configured with a positive cost, Anthropic not configured
C7_Witness ==
  /\ Returned("summary")
  /\ call.gate["openai"] /\ ~call.gate["anthropic"]
  /\ result.summary.openai > 0
  /\ result.summary.anthropic = 0
  /\ result.summary.total = result.summary.openai
  /\ path["anthropic"].sent = <<>>

(* C8 as claimed: once init has been called, no later operation, another   *)
(* call of init included, changes the configured flags or the adapters.    *)
C8_GateWriteOnce ==
  [][inits >= 1 => gate' = gate]_vars

(* C8: the configured flags and the adapter instances are changed by init  *)
(* only: the aggregate calls and all the steps of the adapters leave them  *)
(* as they are, while each further call of init overwrites them.           *)
C8_OnlyInitWritesGate ==
  [][gate' # gate => inits' = inits + 1]_vars

\* init was called again and an aggregate call returned under the new gate
C8_Witness ==
  /\ inits = 2
  /\ call.state = "returned"
  /\ openaiService = [id |-> 2]
  /\ ~anthropicConfigured

JointKinds == {"summary", "daily"}

CallCanReturn == ENABLED (CurrentMonthSummaryReturns \/ DailyCostsReturns)

PathCanReturn(p) ==
  IF p = "openai" THEN ENABLED (OpenAICurrentMonthReturns \/ OpenAIDailyReturns)
  ELSE ENABLED (AnthropicCurrentMonthReturns \/ AnthropicUsageReturns
                  \/ AnthropicDailyReturns)

(* C9 as claimed: in getCurrentMonthSummary and getDailyCosts a hung       *)
(* upstream call of one provider does not block the delivery of the other  *)
(* provider's values: once the other adapter call is done the aggregate    *)
(* call can return to its caller.                                          *)
C9_HangDoesNotBlockDelivery ==
  \A p, q \in Providers :
    (/\ p # q
     /\ call.state = "pending"
     /\ call.kind \in JointKinds
     /\ path[p].pc = "done"
     /\ path[q].hung) => CallCanReturn

(* C9: in getCurrentMonthSummary and getDailyCosts the two adapter calls   *)
(* are issued together, neither waiting for the other, and a hung upstream *)
(* call blocks only its own adapter call: the other adapter call can still *)
(* finish.  The results are awaited jointly: the aggregate call returns    *)
(* only when both adapter calls are done, so while one hangs the caller    *)
(* receives nothing.                                                       *)
C9_IssuedTogetherAwaitedJointly ==
  call.kind \in JointKinds =>
    /\ \A p \in Providers :
         path[p].pc # "none" => path[p].sent[1] = Request("costs", 0)
    /\ \A p, q \in Providers :
         (/\ p # q
          /\ call.state = "pending"
          /\ path[q].hung
          /\ path[p].pc \in {"fetch", "usage"}
          /\ ~path[p].hung) => PathCanReturn(p)
    /\ call.state = "returned" =>
         \A p \in Providers : path[p].pc \in {"none", "done"} /\ ~path[p].hung
    /\ (call.state = "pending" /\ \E q \in Providers : path[q].hung) => ~CallCanReturn

\* the OpenAI cost is there, the Anthropic request hangs, the call is pending
C9_Witness ==
  /\ call.state = "pending"
  /\ call.kind = "summary"
  /\ path["openai"].pc = "done"
  /\ path["openai"].cost > 0
  /\ path["anthropic"].hung

\* every upstream call of the provider failed / succeeded
Outage(q) == path[q].pc = "done" /\ path[q].log # <<>> /\ AllFailed(path[q].log)
Working(p) == path[p].pc = "done" /\ \A k \in DOMAIN path[p].log : path[p].log[k].ok

(* C10: when every upstream call of one provider fails and the other       *)
(* provider's calls succeed, the call does not fail, the summary, daily    *)
(* and monthly outputs show 0 for the failed provider and carry the        *)
(* working provider's values unchanged; the output is not blanked.         *)
C10_OutageDegradesOneProvider ==
  \A p, q \in Providers :
    (p # q /\ call.state = "returned" /\ Outage(q) /\ Working(p)) =>
      /\ ~result.threw
      /\ call.kind = "summary" =>
           /\ result.summary[q] = 0
           /\ result.summary[p] = path[p].cost
           /\ result.summary.total = path[p].cost
      /\ call.kind = "daily" =>
           /\ DatesOf(result.rows) = DatesOf(path[p].series)
           /\ \A k \in DOMAIN result.rows :
                /\ result.rows[k][q] = 0
                /\ result.rows[k][p] = CostAt(path[p].series, result.rows[k].date)
                /\ result.rows[k].total = result.rows[k][p]
      /\ call.kind = "monthly" =>
           /\ Len(result.rows) = call.months
           /\ \A k \in DOMAIN result.rows :
                /\ result.rows[k][q] = 0
                /\ result.rows[k].month = path[p].series[k].month
                /\ result.rows[k][p] = ExpectedMonthCost(p, path[p].log[k])

\* OpenAI is down, the daily output still carries the Anthropic costs
C10_Witness ==
  /\ Returned("daily")
  /\ Outage("openai")
  /\ Working("anthropic")
  /\ \E k \in DOMAIN result.rows :
       result.rows[k].anthropic > 0 /\ result.rows[k].openai = 0

\* the requests an adapter call may issue, in order
RequestPlan(p) ==
  CASE call.kind = "monthly" ->
         [k \in 1..call.months |-> Request("costs", call.months - k)]
    [] call.kind = "summary" /\ p = "anthropic" ->
         <<Request("costs", 0), Request("usage", 0)>>
    [] OTHER -> <<Request("costs", 0)>>

IsPrefix(s, t) == Len(s) <= Len(t) /\ \A k \in DOMAIN s : s[k] = t[k]

(* C11: within one aggregate call no request is issued twice: the requests *)
(* of an adapter call are pairwise different (one per period and endpoint),*)
(* each gets at most one outcome, and a failed one is followed by the next *)
(* request or by the end of the call, never by itself; getCurrentMonthCost *)
(* of Anthropic issues at most one cost-report and one usage-report        *)
(* request.  A call whose requests all failed ends with the zero value.    *)
C11_NoRetries ==
  \A p \in Providers :
    (call.state # "idle" /\ path[p].pc # "none") =>
      /\ NoDuplicates(path[p].sent)
      /\ IsPrefix(path[p].sent, RequestPlan(p))
      /\ Len(path[p].log) <= Len(path[p].sent)
      /\ Len(path[p].sent) <= Len(path[p].log) + 1
      /\ (path[p].pc = "done" /\ AllFailed(path[p].log)) =>
           /\ path[p].cost = 0
           /\ \A k \in DOMAIN path[p].series : path[p].series[k].cost = 0
           /\ call.kind = "daily" => path[p].series = <<>>

\* both months of a monthly call failed and each was requested once
C11_Witness ==
  \E p \in Providers :
    /\ call.kind = "monthly"
    /\ path[p].pc = "done"
    /\ path[p].log = <<Failure, Failure>>
    /\ path[p].sent = <<Request("costs", 1), Request("costs", 0)>>

(* C12: getMonthlyCosts fetches sequentially, at most one request in       *)
(* flight per adapter, and a 200 ms delay step lies between every two      *)
(* consecutive fetches whatever the outcome of the earlier one: a fetch    *)
(* after the first is issued only by the step that ends a delay.           *)
C12_DelayBetweenFetches ==
  [][\A p \in Providers :
       (/\ MonthlyPath(p)
        /\ call.state = "pending"
        /\ call'.state = "pending") =>
         /\ Len(path'[p].sent) <= Len(path'[p].log) + 1
         /\ Len(path'[p].sent) > Len(path[p].sent) => path[p].pc = "delay"]_vars

\* the month labels of a series are consecutive calendar months ending with "now"
Chronological(labels, nowMonth) ==
  /\ \A k \in 1..(Len(labels) - 1) : labels[k + 1] = (labels[k] + 1) % MonthsPerYear
  /\ labels # <<>> => labels[Len(labels)] = nowMonth

C14_DailyStrictlyAscending ==
  Returned("daily") =>
    \A k \in 1..(Len(result.rows) - 1) : result.rows[k].date < result.rows[k + 1].date

\* Anthropic gave day 2 before day 1, OpenAI gave day 1; the output is day 1, day 2
C14_Witness ==
  /\ Returned("daily")
  /\ [k \in DOMAIN path["anthropic"].series |-> path["anthropic"].series[k].date] = <<2, 1>>
  /\ DatesOf(path["openai"].series) = {1}
  /\ [k \in DOMAIN result.rows |-> result.rows[k].date] = <<1, 2>>

\* rows is the daily combination of the series A and B: determined by A and B alone
IsDailyCombination(rows, A, B) ==
  /\ DatesOf(rows) = DatesOf(A) \cup DatesOf(B)
  /\ \A k \in 1..(Len(rows) - 1) : rows[k].date < rows[k + 1].date
  /\ \A k \in DOMAIN rows :
       /\ rows[k].openai = CostAt(A, rows[k].date)
       /\ rows[k].anthropic = CostAt(B, rows[k].date)
       /\ rows[k].total = CostAt(A, rows[k].date) + CostAt(B, rows[k].date)

\* rows is the monthly combination of two series over the same months (or empty)
IsMonthlyCombination(rows, A, B) ==
  /\ Len(rows) = IF Len(A) >= Len(B) THEN Len(A) ELSE Len(B)
  /\ \A k \in DOMAIN rows :
       /\ rows[k].month = IF k \in DOMAIN A THEN A[k].month ELSE B[k].month
       /\ rows[k].openai = IF k \in DOMAIN A THEN A[k].cost ELSE 0
       /\ rows[k].anthropic = IF k \in DOMAIN B THEN B[k].cost ELSE 0

(* C15: combining is pure.  What getDailyCosts and getMonthlyData return   *)
(* is determined by the two adapter results of that call alone (so equal   *)
(* adapter results give equal output in any two calls), the step that      *)
(* combines leaves the adapter results as they were, and it writes no      *)
(* field of CostTrackerService.                                            *)
C15_CombinePure ==
  [][(call.state = "pending" /\ call'.state = "returned" /\ ~result'.threw) =>
       /\ path' = path
       /\ gate' = gate
       /\ call.kind = "daily" =>
            IsDailyCombination(result'.rows, path["openai"].series,
                               path["anthropic"].series)
       /\ call.kind = "monthly" =>
            IsMonthlyCombination(result'.rows, path["openai"].series,
                                 path["anthropic"].series)]_vars

\* a daily call returned two records from two entries of each adapter, whose
\* results are intact
C15_Witness ==
  /\ Returned("daily")
  /\ Len(path["openai"].series) = 2
  /\ Len(path["anthropic"].series) = 2
  /\ Len(result.rows) = 2
  /\ \A k \in DOMAIN result.rows : result.rows[k].openai > 0 /\ result.rows[k].anthropic > 0

\* the date of a bucket as the adapter of provider p derives it
BucketDate(p, bucket) ==
  IF p = "openai" THEN DateStr(bucket.start_time) ELSE bucket.starting_at[1]

\* the sum of the line items of the first n buckets that fall on date d
RECURSIVE DaySum(_, _, _, _)
DaySum(p, buckets, n, d) ==
  IF n = 0 THEN 0
  ELSE DaySum(p, buckets, n - 1, d)
         + IF BucketDate(p, buckets[n]) = d
           THEN ItemSum(p, buckets[n].results, Len(buckets[n].results))
           ELSE 0

\* the daily adapter call of provider p is done on a well-formed response
DailyAnswered(p) ==
  /\ call.kind = "daily"
  /\ path[p].pc = "done"
  /\ path[p].log[1].ok
  /\ ~Malformed(path[p].log[1].body)

(* C16: the daily series of each adapter (OpenAIService.getDailyCosts,     *)
(* AnthropicService.getDailyCosts) has exactly one entry per distinct date *)
(* of the response, its cost being the sum of all line items of all the    *)
(* buckets of that date, also when several buckets share a date.           *)
C16_OneEntryPerDate ==
  \A p \in Providers :
    DailyAnswered(p) =>
      LET buckets == path[p].log[1].body.data
          series == path[p].series
      IN  /\ DatesOf(series) = {BucketDate(p, buckets[k]) : k \in DOMAIN buckets}
          /\ NoDuplicates([k \in DOMAIN series |-> series[k].date])
          /\ \A k \in DOMAIN series :
               series[k].cost = DaySum(p, buckets, Len(buckets), series[k].date)

\* the OpenAI response k of the call in progress was received and is well formed
OpenAIAnswered(k) ==
  /\ path["openai"].pc # "none"
  /\ k \in DOMAIN path["openai"].log
  /\ path["openai"].log[k].ok
  /\ ~Malformed(path["openai"].log[k].body)

AnthropicAnswered(k) ==
  /\ path["anthropic"].pc # "none"
  /\ k \in DOMAIN path["anthropic"].log
  /\ path["anthropic"].log[k].ok
  /\ ~Malformed(path["anthropic"].log[k].body)

(* C18: the parsing of an Anthropic amount never throws and never spoils   *)
(* a sum: "12.50" counts as 12.50, "0" as 0, and "abc", "" and null as 0;  *)
(* the cost of a bucket, of a month and of the current month is the sum of *)
(* the amounts that parse, whatever other line items stand beside them.    *)
C18_AmountParsingTolerant ==
  LET pth == path["anthropic"]
      total(k) == BucketsSum("anthropic", pth.log[k].body.data, Len(pth.log[k].body.data))
  IN  /\ OrZero(parseFloat("12.50")) = 1250
      /\ \A a \in {"0", "abc", "", "null"} : OrZero(parseFloat(a)) = 0
      /\ ~pth.threw
      /\ (call.kind = "summary" /\ pth.pc = "done" /\ AnthropicAnswered(1)) =>
           pth.cost = total(1)
      /\ call.kind = "monthly" =>
           \A k \in DOMAIN pth.series : AnthropicAnswered(k) => pth.series[k].cost = total(k)
      /\ (call.kind = "daily" /\ pth.pc = "done" /\ AnthropicAnswered(1)) =>
           LET buckets == pth.log[1].body.data
           IN  /\ Len(pth.series) = Len(buckets)
               /\ \A k \in DOMAIN buckets :
                    pth.series[k].cost
                      = ItemSum("anthropic", buckets[k].results, Len(buckets[k].results))

\* a day whose line items are "", "4.25" and null costs 4.25
C18_Witness ==
  /\ call.kind = "daily"
  /\ path["anthropic"].pc = "done"
  /\ path["anthropic"].log = <<Success(Body(<<AnthropicBucket(2, <<"", "4.25", "null">>)>>))>>
  /\ path["anthropic"].series = <<[date |-> 2, cost |-> 425]>>

\* the tokens of the first n usage entries, weighted by their price per 1M tokens
\* (3.00 and 15.00 dollars, in hundredths)
RECURSIVE WeightedTokens(_, _)
WeightedTokens(entries, n) ==
  IF n = 0 THEN 0
  ELSE WeightedTokens(entries, n - 1)
         + entries[n].input_tokens * 300 + entries[n].output_tokens * 1500

(* C19: when the cost report fails in getCurrentMonthCost of Anthropic,    *)
(* the result is the estimate from the usage report: over all its entries, *)
(* input_tokens / 1,000,000 x 3.00 + output_tokens / 1,000,000 x 15.00, so *)
(* 1,000,000 input and 500,000 output tokens give 10.50; it is 0 when the  *)
(* usage report fails too.                                                 *)
C19_UsageFallbackEstimate ==
  LET pth == path["anthropic"]
  IN  (call.kind = "summary" /\ pth.pc = "done" /\ ~pth.log[1].ok) =>
        /\ Len(pth.log) = 2
        /\ pth.sent = <<Request("costs", 0), Request("usage", 0)>>
        /\ ~pth.log[2].ok => pth.cost = 0
        /\ (pth.log[2].ok /\ pth.log[2].body.hasData) =>
             pth.cost * TokensPerUnit
               = WeightedTokens(pth.log[2].body.data, Len(pth.log[2].body.data))
        /\ pth.log[2] = Success(Body(<<[model |-> "claude-3.5", input_tokens |-> 1000000,
                                        output_tokens |-> 500000]>>)) => pth.cost = 1050

\* the cost report failed and the usage report of 1M input and 500k output tokens
\* gave 10.50, which the summary returned
C19_Witness ==
  /\ Returned("summary")
  /\ path["anthropic"].log
       = <<Failure, Success(Body(<<[model |-> "claude-3.5", input_tokens |-> 1000000,
                                    output_tokens |-> 500000]>>))>>
  /\ result.summary.anthropic = 1050

(* C20: a malformed Anthropic cost response, that is a body without a data *)
(* array or a bucket without a results array, counts as empty data:        *)
(* getCurrentMonthCost yields 0, getDailyCosts an empty series and         *)
(* getMonthlyCosts the cost 0 for that month, and no exception escapes.    *)
C20_MalformedIsEmptyData ==
  LET pth == path["anthropic"]
      malformed(k) == /\ k \in DOMAIN pth.log
                      /\ pth.log[k].ok
                      /\ Malformed(pth.log[k].body)
  IN  /\ ~pth.threw
      /\ (call.kind = "summary" /\ pth.pc = "done" /\ malformed(1)) => pth.cost = 0
      /\ (call.kind = "daily" /\ pth.pc = "done" /\ malformed(1)) => pth.series = <<>>
      /\ call.kind = "monthly" =>
           \A k \in DOMAIN pth.series : malformed(k) => pth.series[k].cost = 0

(* C24: the usage-report endpoint is requested only by                     *)
(* AnthropicService.getCurrentMonthCost, and only after its cost-report    *)
(* fetch has failed: no daily or monthly call and no OpenAI adapter ever   *)
(* issues a usage request, and a cost-report fetch that succeeded is never *)
(* followed by one.                                                        *)
C24_UsageOnlyAfterFailedFetch ==
  \A p \in Providers : \A k \in DOMAIN path[p].sent :
    path[p].sent[k].endpoint = "usage" =>
      /\ p = "anthropic"
      /\ call.kind = "summary"
      /\ k = 2
      /\ path[p].sent[1].endpoint = "costs"
      /\ Len(path[p].log) >= 1
      /\ ~path[p].log[1].ok

(* C26: after any number of init calls, none included, each adapter field  *)
(* is non-null exactly when the flag of its provider is true; before the   *)
(* first init both adapters are absent, and an aggregate call issues no    *)
(* request and returns zero costs or an empty series.                      *)
C26_AdapterAgreesWithFlag ==
  /\ \A p \in Providers : (ServiceOf(p) # Null) <=> Configured(p)
  /\ inits = 0 =>
       /\ \A p \in Providers : ServiceOf(p) = Null /\ ~Configured(p)
       /\ \A p \in Providers : path[p].sent = <<>> /\ path[p].log = <<>>
       /\ call.state = "returned" =>
            /\ ~result.threw
            /\ result.rows = <<>>
            /\ result.summary.openai = 0
            /\ result.summary.anthropic = 0
            /\ result.summary.total = 0

\* the last of several init calls has switched one provider on and the other
\* off, and an aggregate call has since returned
C26_Witness ==
  /\ inits >= 2
  /\ openaiConfigured /\ openaiService = [id |-> inits]
  /\ ~anthropicConfigured /\ anthropicService = Null
  /\ call.state = "returned"
  /\ path["openai"].sent # <<>>

\* the positions of a series that carry date d
EntriesOf(series, d) == {k \in DOMAIN series : series[k].date = d}

\* the cost field of a combined record that belongs to provider p
ProviderCost(row, p) == IF p = "openai" THEN row.openai ELSE row.anthropic

(* C30: when the series of one provider has two entries of the same date,  *)
(* the record of that date carries the cost of the later entry for that    *)
(* provider, not the sum of the two, and its total is its openai plus its  *)
(* anthropic cost.                                                         *)
C30_LaterDuplicateOverwrites ==
  Returned("daily") =>
    \A p \in Providers :
      LET series == path[p].series
      IN  \A j, k \in DOMAIN series :
            (j < k /\ series[j].date = series[k].date
               /\ \A l \in EntriesOf(series, series[k].date) : l <= k) =>
              \E r \in DOMAIN result.rows :
                /\ result.rows[r].date = series[k].date
                /\ ProviderCost(result.rows[r], p) = series[k].cost
                /\ series[j].cost > 0 =>
                     ProviderCost(result.rows[r], p) # series[j].cost + series[k].cost
                /\ result.rows[r].total = result.rows[r].openai + result.rows[r].anthropic

\* Anthropic returned 4.25 and then 12.50 for day 1, OpenAI has a cost for
\* day 1 too, and the record of day 1 carries 12.50 for Anthropic
C30_Witness ==
  /\ Returned("daily")
  /\ LET B == path["anthropic"].series
     IN  /\ Len(B) = 2
         /\ B[1] = [date |-> 1, cost |-> 425]
         /\ B[2] = [date |-> 1, cost |-> 1250]
  /\ \E r \in DOMAIN result.rows :
       /\ result.rows[r].date = 1
       /\ result.rows[r].openai > 0
       /\ result.rows[r].anthropic = 1250
       /\ result.rows[r].total = result.rows[r].openai + 1250

\* the sum of a token field over the first n usage entries of model m
RECURSIVE TokensOf(_, _, _, _)
TokensOf(entries, m, output, n) ==
  IF n = 0 THEN 0
  ELSE TokensOf(entries, m, output, n - 1)
         + (IF entries[n].model # m THEN 0
            ELSE IF output THEN entries[n].output_tokens ELSE entries[n].input_tokens)

(* C21: getModelBreakdown returns one entry per distinct model name of the *)
(* usage report, with inputTokens and outputTokens the sums over the usage *)
(* entries of that model and estimatedCost = inputTokens / 1e6 x 3.00 +    *)
(* outputTokens / 1e6 x 15.00 (3 and 15 hundredths per 10,000 tokens);     *)
(* it requests the usage report only, never the cost report, and returns   *)
(* the empty list when the usage fetch fails.                              *)
C21_BreakdownPerModel ==
  /\ \A k \in DOMAIN breakdown.sent : breakdown.sent[k].endpoint = "usage"
  /\ breakdown.pc = "done" =>
       LET entries == IF breakdown.resp.ok /\ breakdown.resp.body.hasData
                      THEN breakdown.resp.body.data ELSE <<>>
           rows == breakdown.models
       IN  /\ Len(breakdown.sent) = 1
           /\ ~breakdown.resp.ok => rows = <<>>
           /\ {rows[k].model : k \in DOMAIN rows}
                = {entries[k].model : k \in DOMAIN entries}
           /\ NoDuplicates([k \in DOMAIN rows |-> rows[k].model])
           /\ \A k \in DOMAIN rows :
                /\ rows[k].inputTokens
                     = TokensOf(entries, rows[k].model, FALSE, Len(entries))
                /\ rows[k].outputTokens
                     = TokensOf(entries, rows[k].model, TRUE, Len(entries))
                /\ rows[k].inputTokens % 10000 = 0
                /\ rows[k].outputTokens % 10000 = 0
                /\ rows[k].estimatedCost = 3 * (rows[k].inputTokens \div 10000)
                                             + 15 * (rows[k].outputTokens \div 10000)

\* a usage report of three entries, two of one model around one of another:
\* two entries are returned, the first with the tokens of two usage entries
C21_Witness ==
  /\ breakdown.pc = "done"
  /\ breakdown.resp.ok
  /\ Len(breakdown.resp.body.data) = 3
  /\ breakdown.resp.body.data[1].model = breakdown.resp.body.data[3].model
  /\ breakdown.resp.body.data[1].model # breakdown.resp.body.data[2].model
  /\ Len(breakdown.models) = 2
  /\ breakdown.models[1].inputTokens
       = breakdown.resp.body.data[1].input_tokens + breakdown.resp.body.data[3].input_tokens
  /\ breakdown.models[1].estimatedCost > 0

\* the months back, within a lookback of n months, whose label is label
MonthsBackOf(label, nowMonth, n) ==
  {i \in 0..(n - 1) : (nowMonth - i) % 12 = label}

\* the smallest member of a non-empty set of numbers
Least(S) == CHOOSE x \in S : \A y \in S : x <= y

(* C29: getMonthlyData joins on the month label alone.  With a lookback of *)
(* more than 12 months, a label that two calendar months share has one     *)
(* record, which carries for each adapter called the cost of the later of  *)
(* the two months and not their sum, and the output has fewer records than *)
(* months were asked for; with a lookback of at most 12 months the labels  *)
(* are distinct and there are exactly as many records as months, provided  *)
(* an adapter is present.                                                  *)
C29_JoinOnMonthLabel ==
  (lookback.pc = "done" /\ \E p \in Providers : lookback.present[p]) =>
    LET n == lookback.months
        rows == lookback.rows
    IN  /\ NoDuplicates([k \in DOMAIN rows |-> rows[k].month])
        /\ n <= 12 => Len(rows) = n
        /\ n > 12 => Len(rows) < n
        /\ \A r \in DOMAIN rows :
             LET back == MonthsBackOf(rows[r].month, lookback.now, n)
                 later == Least(back)
             IN  /\ back # {}
                 /\ \A p \in Providers :
                      ProviderCost(rows[r], p)
                        = IF lookback.present[p]
                          THEN ExpectedMonthCost(p, lookback.answers[p][later])
                          ELSE 0

\* a lookback of 13 months with both adapters: the month 12 months back cost
\* OpenAI 12.50 and this month's request failed; the one record of their label
\* carries 0 for OpenAI, and 12 records are returned
C29_Witness ==
  /\ lookback.pc = "done"
  /\ lookback.months = 13
  /\ lookback.present["openai"] /\ lookback.present["anthropic"]
  /\ lookback.openaiData[1].cost = 1250
  /\ lookback.openaiData[13].cost = 0
  /\ lookback.openaiData[1].month = lookback.openaiData[13].month
  /\ lookback.anthropicData[1].cost = 0
  /\ lookback.anthropicData[13].cost = 425
  /\ Len(lookback.rows) = 12
  /\ lookback.rows[1].month = lookback.openaiData[13].month
  /\ lookback.rows[1].openai = 0
  /\ lookback.rows[1].anthropic = 425

(* C25: a getCosts call of the OpenAI adapter makes the proxy issue one     *)
(* request to OpenAI, for the whole range of the call with limit=180 and   *)
(* daily buckets, and never a second one; has_more in the answer is        *)
(* ignored, so getCosts returns the first page only and the buckets beyond *)
(* it are dropped.  (A proxy without a key issues no request at all.)      *)
C25_OneUpstreamRequest ==
  /\ Len(proxy.upstream) <= 1
  /\ \A k \in DOMAIN proxy.upstream :
       /\ proxy.upstream[k].start_time = proxy.range.start_time
       /\ proxy.upstream[k].end_time = proxy.range.end_time
       /\ proxy.upstream[k].limit = 180
       /\ proxy.upstream[k].bucket_width = "1d"
  /\ proxy.stage \in {"upstream", "responded", "done"} =>
       Len(proxy.upstream) = IF proxy.env.openai = NoKey THEN 0 ELSE 1
  /\ (proxy.stage = "done" /\ proxy.answer.kind = "page") =>
       /\ ~proxy.completion.threw
       /\ Len(proxy.completion.val.data)
            = IF proxy.answer.days > 180 THEN 180 ELSE proxy.answer.days
       /\ proxy.completion.val.has_more = (proxy.answer.days > 180)

\* OpenAI holds 181 days for the range: getCosts has returned 180 buckets with
\* has_more set, after one request
C25_Witness ==
  /\ proxy.stage = "done"
  /\ proxy.answer.kind = "page"
  /\ proxy.answer.days = 181
  /\ Len(proxy.upstream) = 1
  /\ ~proxy.completion.threw
  /\ proxy.completion.val.has_more
  /\ Len(proxy.completion.val.data) = 180

\* the API keys
Secrets == {OpenAIKey, AnthropicKey}

(* C22: the provider secret never reaches the browser.  No response of the *)
(* proxy, /api/config and error bodies included, carries an API key, only  *)
(* the headers of its upstream requests do, and no variable of the         *)
(* browser-side code (the Dashboard, the adapter) holds one.               *)
C22_SecretStaysInProxy ==
  /\ proxy.response.error \notin Secrets
  /\ proxy.config \in [asked : BOOLEAN, openaiConfigured : BOOLEAN,
                       anthropicConfigured : BOOLEAN]
  /\ \A k \in DOMAIN proxy.upstream :
       proxy.upstream[k].Authorization.key = proxy.env.openai
  /\ dashboard.keys.openai \notin Secrets
  /\ dashboard.keys.anthropic \notin Secrets

\* the figures the Dashboard shows are those of loadMockData
ShowsMockData ==
  /\ dashboard.openaiCost = 7345
  /\ dashboard.anthropicCost = 5890
  /\ dashboard.totalCost = 13235
  /\ dashboard.monthlyData = mockMonthlyData
  /\ dashboard.dailyData = dashboard.mockDailyData

\* the figures the Dashboard shows are what the calls of costTracker resolved with
ShowsRealData ==
  /\ dashboard.openaiCost = dashboard.received.summary.openai
  /\ dashboard.anthropicCost = dashboard.received.summary.anthropic
  /\ dashboard.totalCost = dashboard.received.summary.total
  /\ dashboard.monthlyData = dashboard.received.monthly
  /\ dashboard.dailyData = dashboard.received.daily
  /\ Len(dashboard.calls) = 5

DataMethods == {"getCurrentMonthSummary", "getMonthlyData", "getDailyCosts"}

(* C23: when neither API key is present at mount, the Dashboard shows the  *)
(* mock summary, monthly and daily data, loading is false, useMockData is  *)
(* still true, and no data method of costTracker has been called.          *)
C23_DemoDataWithoutKeys ==
  (dashboard.pc # "created" /\ ~KeysPresent(dashboard.keys)) =>
    /\ dashboard.pc = "mounted"
    /\ ShowsMockData
    /\ ~dashboard.loading
    /\ dashboard.useMockData
    /\ dashboard.error = ""
    /\ \A k \in DOMAIN dashboard.calls : dashboard.calls[k] \notin DataMethods

\* mounted without keys: the mock figures are shown
C23_Witness ==
  /\ dashboard.pc = "mounted"
  /\ dashboard.keys = [openai |-> NoKey, anthropic |-> NoKey]
  /\ dashboard.openaiCost = 7345
  /\ Len(dashboard.monthlyData) = 5
  /\ dashboard.dailyData # <<>>
  /\ dashboard.calls = <<>>

====
